---------------------------- MODULE Spec2Model ----------------------------
(***************************************************************************)
(* Fair Value Gap monitor: the Gap Detector (utils/fvg_detector.py), the   *)
(* Mitigation Tracker (utils/mitigation_detector.py) and the Detection     *)
(* Engine with its result cache (backtest/detect_engine.py).               *)
(*                                                                         *)
(* Conventions.                                                            *)
(*  - A candle is [Time, High, Low]; Open, Close and Volume are never read *)
(*    by the detector, the tracker or the engine and are left out.         *)
(*  - Prices are the floats of the source, drawn here from 0 .. MaxPrice.  *)
(*  - A 'Time' string "YYYY-mm-dd HH:MM:SS UTC" is the number k of         *)
(*    timeframes since an origin; strptime(..).timestamp() is Timestamp(k),*)
(*    in seconds (host time zone with a fixed offset: the offset cancels   *)
(*    in every comparison and difference the code makes).  The string      *)
(*    order of the fixed-width format is the order of k.                   *)
(*  - Python lists are sequences; Python index j is position j + 1.        *)
(*  - A float quotient n / d is the pair <<n, d>>.  time_to_mitigation is  *)
(*    time_diff / 3600: <<time_diff, SecondsPerHour>>.                     *)
(*  - None, and a dictionary key that is absent and read with .get(), are  *)
(*    both the value None, the empty tuple; a value v that may be None is  *)
(*    held as <<v>>.                                                       *)
(***************************************************************************)
EXTENDS Integers, Sequences, FiniteSets, TLC

VARIABLES
    candles,        \* FVGDetector.candles: the input sequence, newest first
    det_error,      \* exception raised by detect_fvgs_only, or None
    bullish_fvgs,   \* the bullish gap list returned by detect_fvgs_only
    bearish_fvgs,   \* the bearish gap list returned by detect_fvgs_only
    pc,             \* position of the caller that drives the two detectors
    now,            \* datetime.now(), in seconds
    cache,          \* DetectionEngine.cache: fvgs, hashes['fvgs'], last_update,
                    \* cache_duration
    engine,         \* DetectionEngine.bullish_fvgs and .bearish_fvgs
    ret,            \* the outcome of the engine's last call, as its caller has it
    loaded,         \* SpecCollect: the batch the Candle Source holds for
                    \* _load_batch and the target_fvgs of the call; None
                    \* where the source may answer with any batch
    running,            \* FVGMonitor.running
    consecutive_errors, \* the local counter of price_thread
    price_queue,        \* FVGMonitor.price_queue, oldest item first
    price_pc,           \* price_thread: in its loop, ended, or dead
    price_sleep,        \* the argument of price_thread's last time.sleep
    price_error,        \* the exception that left price_thread, or None
    fvg_queue,          \* FVGMonitor.fvg_queue, oldest item first
    det_pc,             \* detection_thread: in its loop, ended, or killed
    disp_pc,            \* display_thread: its position in the current cycle
    held,               \* FVGMonitor.bullish_fvgs, .bearish_fvgs,
                        \* .latest_price, .last_update, .last_fvg_update
    update_needed,      \* the local flag of display_thread
    screen,             \* whether the last display cycle called
                        \* update_screen, and the arguments of the last call
    put                 \* an _update_cache in progress in another thread:
                        \* the line it has reached, its data, and the
                        \* last_update that line 77 overwrote

dvars == <<candles, det_error, bullish_fvgs, bearish_fvgs, pc>>
evars == <<now, cache, engine, ret, loaded>>
pvars == <<running, consecutive_errors, price_queue, price_pc, price_sleep, price_error>>
mvars == <<fvg_queue, det_pc, disp_pc, held, update_needed, screen>>
vars == <<candles, det_error, bullish_fvgs, bearish_fvgs, pc, now, cache, engine, ret, loaded, running, consecutive_errors, price_queue, price_pc, price_sleep, price_error, fvg_queue, det_pc, disp_pc, held, update_needed, screen, put>>

None == <<>>
Some(v) == <<v>>

\* FVGMonitor.__init__ and the first line of price_thread.
FVGMonitorInit ==
    /\ running = TRUE
    /\ consecutive_errors = 0
    /\ price_queue = <<>>
    /\ price_pc = "loop"
    /\ price_sleep = None
    /\ price_error = None
    /\ fvg_queue = <<>>
    /\ det_pc = "loop"
    /\ disp_pc = "loop"
    /\ held = [bullish_fvgs |-> <<>>, bearish_fvgs |-> <<>>, latest_price |-> None,
               last_update |-> None, last_fvg_update |-> None]
    /\ update_needed = FALSE
    /\ screen = [invoked |-> FALSE, view |-> None]
    /\ put = [pc |-> "idle", data |-> None, replaced |-> None]

(***************************************************************************)
(* Bounds of the model and constants of the program.                       *)
(***************************************************************************)
MaxLen == 4                 \* longest candle sequence given to the detector
MaxPrice == 2               \* prices are 0 .. MaxPrice
TimeframeSeconds == 180     \* one candle of the 3-minute timeframe
SecondsPerHour == 3600      \* time_diff / 3600
MaxPriceQueue == 2          \* most items price_queue holds in the model
MaxFvgQueue == 2            \* most items fvg_queue holds in the model
MaxPriceErrors == 1         \* SpecMonitor: the failure counter stays below this
MonitorCacheDuration == 1   \* initialize_detector: cache_duration = 1
MaxFloatExponent == 1750    \* 1.5 ** k is a float for k <= 1750 and raises
                            \* OverflowError for every greater k
MaxBatch == 3               \* longest batch the Candle Source returns
MaxTarget == 1              \* largest target_fvgs a caller asks for
MaxTTL == 2                 \* largest cache_duration, in seconds
MaxNow == 1                 \* the clock runs from 0 to MaxNow
DefaultTargetFvgs == 20     \* target_fvgs: int = 20
EpsilonNum == 1             \* the epsilon of _is_unique_fvg, 0.0001, is
EpsilonDen == 10000         \* EpsilonNum / EpsilonDen

Prices == 0 .. MaxPrice

\* Candle shapes: a flat candle at every price, one candle with a body
\* (High > Low) and one that violates High >= Low, which the core does not
\* enforce.
Shapes ==
    {[High |-> p, Low |-> p] : p \in Prices}
        \cup {[High |-> 2, Low |-> 1], [High |-> 1, Low |-> 2]}

Candle(t, s) == [Time |-> t, High |-> s.High, Low |-> s.Low]

\* The newest-first sequence of n candles with shapes f and constant
\* spacing: the Candle Source's contract.  Position 1 is the newest candle,
\* at time n.
CandleSeq(n, f) == [i \in 1 .. n |-> Candle(n + 1 - i, f[i])]

\* The candles of the worked example, newest first, at t0 .. t3 = 1 .. 4 with
\* 3-minute spacing: 100 at t0, 105 at t1 and at t2 (a bullish gap
\* [100, 105] formed at t1), then a candle with Low = 102 at t2 + 3 min.
ExampleSeqs ==
    {<<[Time |-> 4, High |-> h, Low |-> 102],
       [Time |-> 3, High |-> 105, Low |-> 105],
       [Time |-> 2, High |-> 105, Low |-> 105],
       [Time |-> 1, High |-> 100, Low |-> 100]>> : h \in {102, 106}}

\* Six candles, newest first: a bearish gap [3, 5] formed at t1 by the
\* candles at t0 .. t2, then three candles that each occupy its zone
\* (High = 3) or do not (High = 2), so that a run, its end and a re-entry
\* all occur.
ReentrySeqs ==
    {CandleSeq(6, [i \in 1 .. 6 |->
                      IF i <= 3 THEN [High |-> f[i], Low |-> f[i]]
                      ELSE IF i = 4 THEN [High |-> 3, Low |-> 3]
                      ELSE [High |-> 5, Low |-> 5]]) : f \in [1 .. 3 -> {2, 3}]}

Timestamp(t) == t * TimeframeSeconds

Abs(x) == IF x < 0 THEN -x ELSE x

Reverse(s) == [i \in 1 .. Len(s) |-> s[Len(s) + 1 - i]]

(***************************************************************************)
(* Gap Detector                                                            *)
(***************************************************************************)
ZeroDivisionError == "ZeroDivisionError"

\* The outcome of a call: an exception, or a returned value.
Raised(e) == [raised |-> Some(e), value |-> None]
Returned(v) == [raised |-> None, value |-> v]

\* The dictionary built at fvg_detector.py:54-67 and :74-87.  ref is the
\* denominator of gap_pct.
NewFvg(type, middle, high, low, ref, idx) ==
    [type |-> type,
     time |-> middle.Time,
     gap_high |-> high,
     gap_low |-> low,
     gap_size |-> high - low,
     gap_percentage |-> <<(high - low) * 100, ref>>,
     middle_price |-> <<high + low, 2>>,
     status |-> "unfilled",
     mitigation_time |-> None,
     mitigation_price |-> None,
     time_to_mitigation |-> None,
     first_mitigation_time |-> None,
     last_mitigation_time |-> None,
     index |-> idx]

\* A plausible slip: the two boundaries of the bearish gap exchanged.
check_fvg_pattern_swapped(cs, i) ==
    LET third == cs[i]
        middle == cs[i + 1]
        first == cs[i + 2]
    IN  IF third.High < first.Low
        THEN IF third.High = 0 THEN Raised(ZeroDivisionError)
             ELSE Returned(Some(NewFvg("bearish", middle, third.High, first.Low, third.High, i)))
        ELSE IF third.Low > first.High
        THEN IF first.High = 0 THEN Raised(ZeroDivisionError)
             ELSE Returned(Some(NewFvg("bullish", middle, third.Low, first.High, first.High, i)))
        ELSE Returned(None)

\* _check_fvg_pattern(start_idx) with start_idx = i - 1: returns a gap
\* record or None, or raises the exception of the float division
\* gap_size / reference price.
check_fvg_pattern(cs, i) ==
    LET third == cs[i]
        middle == cs[i + 1]
        first == cs[i + 2]
    IN  IF third.High < first.Low
        THEN IF third.High = 0 THEN Raised(ZeroDivisionError)
             ELSE Returned(Some(NewFvg("bearish", middle, first.Low, third.High, third.High, i)))
        ELSE IF third.Low > first.High
        THEN IF first.High = 0 THEN Raised(ZeroDivisionError)
             ELSE Returned(Some(NewFvg("bullish", middle, third.Low, first.High, first.High, i)))
        ELSE Returned(None)

DetectResult(bull, bear, err) == [bullish |-> bull, bearish |-> bear, error |-> err]

\* The loop of detect_fvgs_only from window i on.  'except IndexError and
\* KeyError and TypeError' is 'except TypeError': a ZeroDivisionError leaves
\* the loop and the function, and no list is returned.
RECURSIVE DetectLoop(_, _, _, _)
DetectLoop(cs, i, bull, bear) ==
    IF i > Len(cs) - 2 THEN DetectResult(bull, bear, None)
    ELSE LET r == check_fvg_pattern(cs, i)
         IN  IF r.raised # None THEN DetectResult(<<>>, <<>>, r.raised)
             ELSE IF r.value = None THEN DetectLoop(cs, i + 1, bull, bear)
             ELSE IF r.value[1].type = "bullish"
             THEN DetectLoop(cs, i + 1, Append(bull, r.value[1]), bear)
             ELSE DetectLoop(cs, i + 1, bull, Append(bear, r.value[1]))

\* A plausible slip: the length guard dropped and the loop run one window
\* too far, so that candles[start_idx + 2] is read past the end of the list
\* (an IndexError, which the 'except TypeError' clause does not catch).
detect_fvgs_only_unguarded(cs) ==
    IF Len(cs) < 2 THEN DetectResult(<<>>, <<>>, None)
    ELSE DetectResult(<<>>, <<>>, Some("IndexError"))

\* A plausible slip: the two patterns tested by two independent 'if's that
\* each append, instead of returning at the first match.
RECURSIVE DetectLoopBoth(_, _, _, _)
DetectLoopBoth(cs, i, bull, bear) ==
    IF i > Len(cs) - 2 THEN DetectResult(bull, bear, None)
    ELSE LET third == cs[i]
             middle == cs[i + 1]
             first == cs[i + 2]
             isBear == third.High < first.Low
             isBull == third.Low > first.High
         IN  IF (isBear /\ third.High = 0) \/ (isBull /\ first.High = 0)
             THEN DetectResult(<<>>, <<>>, Some(ZeroDivisionError))
             ELSE DetectLoopBoth(cs, i + 1,
                    IF isBull
                    THEN Append(bull, NewFvg("bullish", middle, third.Low,
                                             first.High, first.High, i))
                    ELSE bull,
                    IF isBear
                    THEN Append(bear, NewFvg("bearish", middle, first.Low,
                                             third.High, third.High, i))
                    ELSE bear)

detect_fvgs_only_both(cs) ==
    IF Len(cs) < 3 THEN DetectResult(<<>>, <<>>, None)
    ELSE DetectLoopBoth(cs, 1, <<>>, <<>>)

detect_fvgs_only(cs) ==
    IF Len(cs) < 3 THEN DetectResult(<<>>, <<>>, None)
    ELSE DetectLoop(cs, 1, <<>>, <<>>)

(***************************************************************************)
(* Mitigation Tracker                                                      *)
(***************************************************************************)
\* MitigationDetector.__init__: the input reversed, each candle given its
\* parsed timestamp.  (The candle dictionaries are those of the caller; the
\* added key is not read by the Gap Detector.)
MitigationDetectorInit(input) ==
    [i \in 1 .. Len(input) |->
        [Time |-> input[Len(input) + 1 - i].Time,
         High |-> input[Len(input) + 1 - i].High,
         Low |-> input[Len(input) + 1 - i].Low,
         timestamp |-> Timestamp(input[Len(input) + 1 - i].Time)]]

get_timeframe_seconds(mc) ==
    IF Len(mc) < 2 THEN 0 ELSE Abs(mc[1].timestamp - mc[2].timestamp)

\* price_in_gap of check_fvg_mitigation.
price_in_gap(c, fvg, is_bullish) ==
    IF is_bullish THEN c.Low <= fvg.gap_high ELSE c.High >= fvg.gap_low

\* A plausible slip: the detector's mitigation_time key written as well.
FirstMitigationLegacy(fvg, c, formation_complete_time) ==
    [fvg EXCEPT !.status = "mitigated",
                !.mitigation_time = Some(c.Time),
                !.first_mitigation_time = Some(c.Time),
                !.time_to_mitigation =
                    <<c.timestamp - formation_complete_time, SecondsPerHour>>]

\* The dictionary after the first occupying candle c has been found.
FirstMitigation(fvg, c, formation_complete_time) ==
    [fvg EXCEPT !.status = "mitigated",
                !.first_mitigation_time = Some(c.Time),
                !.time_to_mitigation =
                    <<c.timestamp - formation_complete_time, SecondsPerHour>>]

\* A plausible slip: the loop without its 'break', so that every later
\* occupying candle moves last_mitigation_time.
RECURSIVE MitigationWalkNoBreak(_, _, _, _, _, _, _)
MitigationWalkNoBreak(fvg, is_bullish, candles_after, k, in_gap_zone, first_mitigation_found, formation_complete_time) ==
    IF k > Len(candles_after) THEN fvg
    ELSE LET c == candles_after[k]
         IN  IF price_in_gap(c, fvg, is_bullish)
             THEN LET f1 == IF ~first_mitigation_found
                            THEN FirstMitigation(fvg, c, formation_complete_time)
                            ELSE fvg
                      f2 == [f1 EXCEPT !.last_mitigation_time = Some(c.Time)]
                  IN  MitigationWalkNoBreak(f2, is_bullish, candles_after, k + 1,
                                            TRUE, TRUE, formation_complete_time)
             ELSE MitigationWalkNoBreak(fvg, is_bullish, candles_after, k + 1,
                                        in_gap_zone, first_mitigation_found,
                                        formation_complete_time)

\* The for loop of check_fvg_mitigation over candles_after, from its k-th
\* candle on, with the loop's two flags.
RECURSIVE MitigationWalk(_, _, _, _, _, _, _)
MitigationWalk(fvg, is_bullish, candles_after, k, in_gap_zone, first_mitigation_found, formation_complete_time) ==
    IF k > Len(candles_after) THEN fvg
    ELSE LET c == candles_after[k]
         IN  IF price_in_gap(c, fvg, is_bullish)
             THEN LET f1 == IF ~first_mitigation_found
                            THEN FirstMitigation(fvg, c, formation_complete_time)
                            ELSE fvg
                      f2 == [f1 EXCEPT !.last_mitigation_time = Some(c.Time)]
                  IN  MitigationWalk(f2, is_bullish, candles_after, k + 1, TRUE,
                                     TRUE, formation_complete_time)
             ELSE IF in_gap_zone THEN fvg
             ELSE MitigationWalk(fvg, is_bullish, candles_after, k + 1,
                                 in_gap_zone, first_mitigation_found,
                                 formation_complete_time)

\* A plausible slip: the timeframe offset forgotten.
FormationCompleteTimeNoOffset(fvg, timeframe_seconds) == Timestamp(fvg.time)

FormationCompleteTime(fvg, timeframe_seconds) ==
    Timestamp(fvg.time) + timeframe_seconds

\* A plausible slip: the filter left out, every candle walked.
CandlesAfterUnfiltered(mc, formation_complete_time) == mc

\* A plausible slip: '>=' for '>'.
CandlesAfterInclusive(mc, formation_complete_time) ==
    SelectSeq(mc, LAMBDA c : c.timestamp >= formation_complete_time)

CandlesAfter(mc, formation_complete_time) ==
    SelectSeq(mc, LAMBDA c : c.timestamp > formation_complete_time)

\* A plausible slip: a mitigated gap followed further, the walk resumed
\* after its last_mitigation_time instead of the early return.
check_fvg_mitigation_resumed(fvg, is_bullish, mc, timeframe_seconds) ==
    LET fct == FormationCompleteTime(fvg, timeframe_seconds)
    IN  IF fvg.status = "mitigated"
        THEN MitigationWalk(fvg, is_bullish,
                            CandlesAfter(mc, Timestamp(fvg.last_mitigation_time[1])),
                            1, FALSE, TRUE, fct)
        ELSE MitigationWalk(fvg, is_bullish, CandlesAfter(mc, fct), 1, FALSE, FALSE, fct)

\* A plausible slip: the early return for a mitigated gap left out.
check_fvg_mitigation_recheck(fvg, is_bullish, mc, timeframe_seconds) ==
    LET fct == FormationCompleteTime(fvg, timeframe_seconds)
    IN  MitigationWalk(fvg, is_bullish, CandlesAfter(mc, fct), 1, FALSE, FALSE, fct)

\* check_fvg_mitigation(fvg, is_bullish).  Every gap comes from the Gap
\* Detector and has its 'status' key, so the fvg.update branch is not taken.
check_fvg_mitigation(fvg, is_bullish, mc, timeframe_seconds) ==
    IF fvg.status = "mitigated" THEN fvg
    ELSE LET fct == FormationCompleteTime(fvg, timeframe_seconds)
         IN  MitigationWalk(fvg, is_bullish, CandlesAfter(mc, fct), 1, FALSE,
                            FALSE, fct)

\* check_mitigations applied to one list.
check_mitigations(fvgs, is_bullish, mc) ==
    IF Len(mc) < 2 THEN fvgs
    ELSE [j \in 1 .. Len(fvgs) |->
              check_fvg_mitigation(fvgs[j], is_bullish, mc,
                                   get_timeframe_seconds(mc))]

(***************************************************************************)
(* The caller of the two detectors                                         *)
(***************************************************************************)
Init ==
    /\ \/ \E n \in 0 .. MaxLen : \E f \in [1 .. n -> Shapes] :
              candles = CandleSeq(n, f)
       \/ candles \in ExampleSeqs
       \/ candles \in ReentrySeqs
    /\ det_error = None
    /\ bullish_fvgs = <<>>
    /\ bearish_fvgs = <<>>
    /\ pc = "new"
    /\ now = 0
    /\ cache = [fvgs |-> None, hash |-> None, last_update |-> None,
                cache_duration |-> 0]
    /\ engine = [bullish_fvgs |-> <<>>, bearish_fvgs |-> <<>>]
    /\ ret = [op |-> "none", value |-> None, shared |-> FALSE, raised |-> None,
              queried |-> FALSE]
    /\ loaded = None
    /\ FVGMonitorInit

DetectFvgsOnly ==
    /\ pc = "new"
    /\ LET r == detect_fvgs_only(candles)
       IN  /\ det_error' = r.error
           /\ bullish_fvgs' = r.bullish
           /\ bearish_fvgs' = r.bearish
           /\ pc' = IF r.error = None THEN "detected" ELSE "raised"
    /\ UNCHANGED candles
    /\ UNCHANGED evars
    /\ UNCHANGED pvars
    /\ UNCHANGED <<mvars, put>>

\* A candle that is one timeframe newer than the newest of cs.
NewerCandle(cs, s) == Candle(Len(cs) + 1, s)

\* The candle lists a caller builds a MitigationDetector from: the list the
\* gaps were detected in (the engine's use), the same list oldest first, a
\* later batch holding one newer candle, and a list of one candle.
TrackerInputs ==
    {candles, Reverse(candles), IF candles = <<>> THEN <<>> ELSE <<candles[1]>>}
        \cup {<<NewerCandle(candles, s)>> \o candles : s \in Shapes}

\* A caller builds a MitigationDetector from input and calls its
\* check_mitigations on the two gap lists, which are changed in place.
CheckMitigations(input) ==
    /\ pc \in {"detected", "checked"}
    /\ LET mc == MitigationDetectorInit(input)
       IN  /\ bullish_fvgs' = check_mitigations(bullish_fvgs, TRUE, mc)
           /\ bearish_fvgs' = check_mitigations(bearish_fvgs, FALSE, mc)
    /\ pc' = "checked"
    /\ UNCHANGED <<candles, det_error>>
    /\ UNCHANGED evars
    /\ UNCHANGED pvars
    /\ UNCHANGED <<mvars, put>>

Next ==
    \/ DetectFvgsOnly
    \/ \E input \in TrackerInputs : CheckMitigations(input)

Spec == Init /\ [][Next]_vars

(***************************************************************************)
(* Detection Engine and its result cache                                   *)
(*                                                                         *)
(* self.all_candles and self.total_candles_analyzed are reset at the start *)
(* of every computation and never read before that; they are not state.    *)
(* cache['candles'] has no hash and is never written: _is_cache_valid      *)
(* skips it.                                                               *)
(***************************************************************************)
\* _is_unique_fvg(fvg, fvg_list)
is_unique_fvg(fvg, fvg_list) ==
    ~\E k \in 1 .. Len(fvg_list) :
        /\ fvg_list[k].time = fvg.time
        /\ Abs(fvg_list[k].gap_size - fvg.gap_size) * EpsilonDen < EpsilonNum
        /\ fvg_list[k].type = fvg.type

\* A plausible slip: the filter run to its end before the list is extended
\* (a list comprehension for the generator), so that every gap is compared
\* with the list as it was before the call.
ExtendUniqueEager(temp, batch, k) ==
    temp \o SelectSeq(SubSeq(batch, k, Len(batch)), LAMBDA fvg : is_unique_fvg(fvg, temp))

\* temp.extend(fvg for fvg in batch if self._is_unique_fvg(fvg, temp)): the
\* generator is consumed while temp grows, so each gap is compared with the
\* gaps already appended.
RECURSIVE ExtendUnique(_, _, _)
ExtendUnique(temp, batch, k) ==
    IF k > Len(batch) THEN temp
    ELSE ExtendUnique(IF is_unique_fvg(batch[k], temp) THEN Append(temp, batch[k]) ELSE temp, batch, k + 1)

\* x inserted into a list sorted by descending time, after the elements
\* with the same time (list.sort is stable, also with reverse=True).
RECURSIVE InsertByTimeDesc(_, _)
InsertByTimeDesc(sorted, x) ==
    IF sorted = <<>> THEN <<x>>
    ELSE IF Head(sorted).time >= x.time
         THEN <<Head(sorted)>> \o InsertByTimeDesc(Tail(sorted), x)
         ELSE <<x>> \o sorted

\* temp.sort(key=lambda x: x['time'], reverse=True)
RECURSIVE SortByTimeDesc(_)
SortByTimeDesc(fvgs) ==
    IF fvgs = <<>> THEN <<>>
    ELSE InsertByTimeDesc(SortByTimeDesc(SubSeq(fvgs, 1, Len(fvgs) - 1)), fvgs[Len(fvgs)])

\* A plausible slip: the slice one element too long.
TruncateOneMore(fvgs, target_fvgs) ==
    SubSeq(fvgs, 1, IF Len(fvgs) < target_fvgs + 1 THEN Len(fvgs) ELSE target_fvgs + 1)

\* temp[:target_fvgs]
Truncate(fvgs, target_fvgs) ==
    SubSeq(fvgs, 1, IF Len(fvgs) < target_fvgs THEN Len(fvgs) ELSE target_fvgs)

Timeframe == "M3"
AnalysisPeriod == "start_date to current"

\* The results dictionary of collect_all_fvgs.
Results(bull, bear, total, complete) ==
    [bullish_fvgs |-> bull,
     bearish_fvgs |-> bear,
     total_candles |-> total,
     timeframe |-> Timeframe,
     analysis_period |-> AnalysisPeriod,
     collection_complete |-> complete]

\* A plausible slip: the empty results marked complete, as computed ones are.
create_empty_results_complete == Results(<<>>, <<>>, 0, TRUE)

\* _create_empty_results()
create_empty_results == Results(<<>>, <<>>, 0, FALSE)

\* json.dumps(fvg, sort_keys=True): the values in the order of the keys (a
\* key the detector did not write and the tracker has not set reads None).
DumpFvg(g) ==
    <<g.first_mitigation_time, g.gap_high, g.gap_low, g.gap_percentage,
      g.gap_size, g.index, g.last_mitigation_time, g.middle_price,
      g.mitigation_price, g.mitigation_time, g.status, g.time,
      g.time_to_mitigation, g.type>>

\* json.dumps(data, sort_keys=True) of a results dictionary ({} is None).
JsonDumps(data) ==
    IF data = None THEN <<>>
    ELSE <<data[1].analysis_period,
           [k \in 1 .. Len(data[1].bearish_fvgs) |-> DumpFvg(data[1].bearish_fvgs[k])],
           [k \in 1 .. Len(data[1].bullish_fvgs) |-> DumpFvg(data[1].bullish_fvgs[k])],
           data[1].collection_complete,
           data[1].timeframe,
           data[1].total_candles>>

\* _generate_cache_hash(data): the MD5 digest of the JSON text (two texts
\* have the same digest only if they are equal).
generate_cache_hash(data) == <<"md5", JsonDumps(data)>>

\* A plausible slip: the comparison of the age with the duration inverted.
is_cache_valid_inverted(c, t) ==
    IF c.last_update = None THEN FALSE
    ELSE IF t - c.last_update[1] < c.cache_duration THEN FALSE
    ELSE IF c.hash # None /\ generate_cache_hash(c.fvgs) # c.hash[1] THEN FALSE
    ELSE TRUE

\* A plausible slip: an entry whose age equals the duration still valid.
is_cache_valid_boundary(c, t) ==
    IF c.last_update = None THEN FALSE
    ELSE IF t - c.last_update[1] > c.cache_duration THEN FALSE
    ELSE IF c.hash # None /\ generate_cache_hash(c.fvgs) # c.hash[1] THEN FALSE
    ELSE TRUE

\* _is_cache_valid() at time t.
is_cache_valid(c, t) ==
    IF c.last_update = None THEN FALSE
    ELSE IF t - c.last_update[1] >= c.cache_duration THEN FALSE
    ELSE IF c.hash # None /\ generate_cache_hash(c.fvgs) # c.hash[1] THEN FALSE
    ELSE TRUE

\* A plausible slip: the age is checked and the digests are not.
get_cached_results_unverified(c, t) ==
    IF c.last_update = None \/ t - c.last_update[1] >= c.cache_duration THEN None
    ELSE c.fvgs

\* get_cached_results() at time t: the cached dictionary itself, or None.
get_cached_results(c, t) ==
    IF ~is_cache_valid(c, t) THEN None
    ELSE IF Some(generate_cache_hash(c.fvgs)) # c.hash THEN None
    ELSE c.fvgs

\* _update_cache('fvgs', data) at time t.
update_cache(c, data, t) ==
    [c EXCEPT !.last_update = Some(t),
              !.fvgs = Some(data),
              !.hash = Some(generate_cache_hash(Some(data)))]

\* What a call hands to its caller: the value returned (None, or a results
\* dictionary), whether that dictionary is the very object held in
\* cache['fvgs'], the exception raised instead, and whether the Candle
\* Source was queried.
Outcome(op, value, shared, raised, queried) ==
    [op |-> op, value |-> value, shared |-> shared, raised |-> raised,
     queried |-> queried]

\* The batches the Candle Source returns, newest first with constant
\* spacing: every batch of up to MaxBatch candles at the prices 1 and
\* MaxPrice, and the batches of three candles that hold a zero price.
SourceShapes == {[High |-> p, Low |-> p] : p \in {1, MaxPrice}}

ZeroPriceBatches ==
    {CandleSeq(3, f) : f \in [1 .. 3 -> {[High |-> p, Low |-> p] : p \in {0, 1}}]}

\* Every candle of cs delivered twice; the loader sorts by time and drops
\* no duplicate, so the two copies are adjacent.
Doubled(cs) == [i \in 1 .. 2 * Len(cs) |-> cs[(i + 1) \div 2]]

\* Exchange data that holds every candle twice: three candles around the
\* price 2, each doubled.
DuplicatedBatches ==
    {Doubled(CandleSeq(3, <<[High |-> a, Low |-> a], [High |-> 2, Low |-> 2],
                            [High |-> c, Low |-> c]>>)) : a, c \in 1 .. 3}

SourceBatches ==
    UNION {{CandleSeq(n, f) : f \in [1 .. n -> SourceShapes]} : n \in 0 .. MaxBatch}
        \cup ZeroPriceBatches \cup DuplicatedBatches

\* The exception of a failed request to the exchange.
BinanceAPIException == "BinanceAPIException"

\* What client.get_historical_klines does: it returns rows (here as the
\* loader lays them out, newest first) or it raises.
SourceFailure == Raised(BinanceAPIException)

SourceReplies == {Returned(batch) : batch \in SourceBatches} \cup {SourceFailure}

\* A plausible slip: load_candlestick_batch without its try/except.
load_candlestick_batch_uncaught(reply) == reply

\* load_candlestick_batch, as _load_batch passes it on: the candles, or []
\* when anything was raised ('except Exception: return [], None, False').
load_candlestick_batch(reply) ==
    IF reply.raised # None THEN Returned(<<>>) ELSE reply

\* The values of target_fvgs callers pass: small ones, and the default.
Targets == (0 .. MaxTarget) \cup {DefaultTargetFvgs}

DetectionEngineInit ==
    /\ candles = <<>>
    /\ det_error = None
    /\ bullish_fvgs = <<>>
    /\ bearish_fvgs = <<>>
    /\ pc = "engine"
    /\ now = 0
    /\ \E d \in 0 .. MaxTTL :
           cache = [fvgs |-> None, hash |-> None, last_update |-> None,
                    cache_duration |-> d]
    /\ engine = [bullish_fvgs |-> <<>>, bearish_fvgs |-> <<>>]
    /\ ret = Outcome("none", None, FALSE, None, FALSE)
    /\ FVGMonitorInit

InitEngine ==
    /\ DetectionEngineInit
    /\ loaded = None

\* The clock advances.
Tick ==
    /\ now < MaxNow
    /\ now' = now + 1
    /\ UNCHANGED <<cache, engine, ret, loaded>>
    /\ UNCHANGED dvars
    /\ UNCHANGED pvars
    /\ UNCHANGED <<mvars, put>>

\* get_cached_results() called: what it does to the engine and its caller.
EngineGetCachedResults ==
    /\ \E cached_results \in {get_cached_results(cache, now)} :
           ret' = Outcome("get", cached_results, cached_results # None, None, FALSE)
    /\ UNCHANGED <<now, cache, engine, loaded>>

\* A caller calls get_cached_results().
GetCachedResults ==
    /\ EngineGetCachedResults
    /\ UNCHANGED dvars
    /\ UNCHANGED pvars
    /\ UNCHANGED <<mvars, put>>

\* The computation of collect_all_fvgs from a batch that detection accepted:
\* deduplication, sort, truncation, mitigation check, results dictionary.
ComputeResults(batch, det, target_fvgs) ==
    LET temp_bullish == SortByTimeDesc(ExtendUnique(<<>>, det.bullish, 1))
        temp_bearish == SortByTimeDesc(ExtendUnique(<<>>, det.bearish, 1))
        mc == MitigationDetectorInit(batch)
    IN  Results(check_mitigations(Truncate(temp_bullish, target_fvgs), TRUE, mc),
                check_mitigations(Truncate(temp_bearish, target_fvgs), FALSE, mc),
                Len(batch), TRUE)

\* A plausible slip: collect_all_fvgs without its look into the cache.
CollectAllFvgsUncached(batch, target_fvgs) ==
    /\ \E cached_results \in {None} :
           IF cached_results # None
           THEN /\ ret' = Outcome("collect", cached_results, TRUE, None, FALSE)
                /\ UNCHANGED <<cache, engine, loaded>>
           ELSE /\ UNCHANGED loaded
                /\ IF batch = <<>>
                   THEN /\ ret' = Outcome("collect", Some(create_empty_results), FALSE, None, TRUE)
                        /\ engine' = [bullish_fvgs |-> <<>>, bearish_fvgs |-> <<>>]
                        /\ UNCHANGED cache
                   ELSE \E det \in {detect_fvgs_only(batch)} :
                        IF det.error # None
                        THEN /\ ret' = Outcome("collect", None, FALSE, det.error, TRUE)
                             /\ engine' = [bullish_fvgs |-> <<>>, bearish_fvgs |-> <<>>]
                             /\ UNCHANGED cache
                        ELSE \E results \in {ComputeResults(batch, det, target_fvgs)} :
                             /\ cache' = update_cache(cache, results, now)
                             /\ ret' = Outcome("collect", Some(results), TRUE, None, TRUE)
                             /\ engine' = [bullish_fvgs |-> results.bullish_fvgs,
                                           bearish_fvgs |-> results.bearish_fvgs]
    /\ UNCHANGED now
    /\ UNCHANGED dvars
    /\ UNCHANGED pvars
    /\ UNCHANGED <<mvars, put>>

\* The results dictionary as it is before check_mitigations has run on its
\* two lists.
SelectedResults(batch, det, target_fvgs) ==
    Results(Truncate(SortByTimeDesc(ExtendUnique(<<>>, det.bullish, 1)), target_fvgs),
            Truncate(SortByTimeDesc(ExtendUnique(<<>>, det.bearish, 1)), target_fvgs),
            Len(batch), TRUE)

\* A plausible slip: the results cached before the mitigation check, which
\* then changes the cached gap records in place.
EngineCollectAllFvgsCacheFirst(batch, target_fvgs) ==
    /\ \E cached_results \in {get_cached_results(cache, now)} :
           IF cached_results # None
           THEN /\ ret' = Outcome("collect", cached_results, TRUE, None, FALSE)
                /\ UNCHANGED <<cache, engine, loaded>>
           ELSE /\ UNCHANGED loaded
                /\ IF batch = <<>>
                   THEN /\ ret' = Outcome("collect", Some(create_empty_results), FALSE, None, TRUE)
                        /\ engine' = [bullish_fvgs |-> <<>>, bearish_fvgs |-> <<>>]
                        /\ UNCHANGED cache
                   ELSE \E det \in {detect_fvgs_only(batch)} :
                        IF det.error # None
                        THEN /\ ret' = Outcome("collect", None, FALSE, det.error, TRUE)
                             /\ engine' = [bullish_fvgs |-> <<>>, bearish_fvgs |-> <<>>]
                             /\ UNCHANGED cache
                        ELSE \E results \in {ComputeResults(batch, det, target_fvgs)} :
                             /\ cache' = [update_cache(cache, SelectedResults(batch, det, target_fvgs), now)
                                            EXCEPT !.fvgs = Some(results)]
                             /\ ret' = Outcome("collect", Some(results), TRUE, None, TRUE)
                             /\ engine' = [bullish_fvgs |-> results.bullish_fvgs,
                                           bearish_fvgs |-> results.bearish_fvgs]
    /\ UNCHANGED now

\* A plausible slip: the empty results stored in the cache like any other.
EngineCollectAllFvgsCachesEmpty(batch, target_fvgs) ==
    /\ \E cached_results \in {get_cached_results(cache, now)} :
           IF cached_results # None
           THEN /\ ret' = Outcome("collect", cached_results, TRUE, None, FALSE)
                /\ UNCHANGED <<cache, engine, loaded>>
           ELSE /\ UNCHANGED loaded
                /\ IF batch = <<>>
                   THEN /\ ret' = Outcome("collect", Some(create_empty_results), TRUE, None, TRUE)
                        /\ engine' = [bullish_fvgs |-> <<>>, bearish_fvgs |-> <<>>]
                        /\ cache' = update_cache(cache, create_empty_results, now)
                   ELSE \E det \in {detect_fvgs_only(batch)} :
                        IF det.error # None
                        THEN /\ ret' = Outcome("collect", None, FALSE, det.error, TRUE)
                             /\ engine' = [bullish_fvgs |-> <<>>, bearish_fvgs |-> <<>>]
                             /\ UNCHANGED cache
                        ELSE \E results \in {ComputeResults(batch, det, target_fvgs)} :
                             /\ cache' = update_cache(cache, results, now)
                             /\ ret' = Outcome("collect", Some(results), TRUE, None, TRUE)
                             /\ engine' = [bullish_fvgs |-> results.bullish_fvgs,
                                           bearish_fvgs |-> results.bearish_fvgs]
    /\ UNCHANGED now

\* collect_all_fvgs(target_fvgs), the Candle Source returning batch.  The
\* dictionary returned and the lists kept in self.bullish_fvgs and
\* self.bearish_fvgs are the objects stored in the cache.
EngineCollectAllFvgs(batch, target_fvgs) ==
    /\ \E cached_results \in {get_cached_results(cache, now)} :
           IF cached_results # None
           THEN /\ ret' = Outcome("collect", cached_results, TRUE, None, FALSE)
                /\ UNCHANGED <<cache, engine, loaded>>
           ELSE /\ UNCHANGED loaded
                /\ IF batch = <<>>
                   THEN /\ ret' = Outcome("collect", Some(create_empty_results), FALSE, None, TRUE)
                        /\ engine' = [bullish_fvgs |-> <<>>, bearish_fvgs |-> <<>>]
                        /\ UNCHANGED cache
                   ELSE \E det \in {detect_fvgs_only(batch)} :
                        IF det.error # None
                        THEN /\ ret' = Outcome("collect", None, FALSE, det.error, TRUE)
                             /\ engine' = [bullish_fvgs |-> <<>>, bearish_fvgs |-> <<>>]
                             /\ UNCHANGED cache
                        ELSE \E results \in {ComputeResults(batch, det, target_fvgs)} :
                             /\ cache' = update_cache(cache, results, now)
                             /\ ret' = Outcome("collect", Some(results), TRUE, None, TRUE)
                             /\ engine' = [bullish_fvgs |-> results.bullish_fvgs,
                                           bearish_fvgs |-> results.bearish_fvgs]
    /\ UNCHANGED now

\* A caller calls collect_all_fvgs(target_fvgs), the Candle Source returning
\* batch.
CollectAllFvgs(batch, target_fvgs) ==
    /\ EngineCollectAllFvgs(batch, target_fvgs)
    /\ UNCHANGED dvars
    /\ UNCHANGED pvars
    /\ UNCHANGED <<mvars, put>>

\* collect_all_fvgs(target_fvgs), the exchange answering with reply: an
\* exception that load_candlestick_batch let through would leave
\* collect_all_fvgs at its call of _load_batch, after the look into the
\* cache and the reset of the two lists.
CollectFromSource(reply, target_fvgs) ==
    \E batch_candles \in {load_candlestick_batch(reply)} :
        IF batch_candles.raised # None /\ get_cached_results(cache, now) = None
        THEN /\ ret' = Outcome("collect", None, FALSE, batch_candles.raised, TRUE)
             /\ engine' = [bullish_fvgs |-> <<>>, bearish_fvgs |-> <<>>]
             /\ UNCHANGED <<now, cache, loaded>>
             /\ UNCHANGED dvars
             /\ UNCHANGED pvars
             /\ UNCHANGED <<mvars, put>>
        ELSE CollectAllFvgs(IF batch_candles.raised # None THEN <<>> ELSE batch_candles.value,
                            target_fvgs)

\* The changes a holder of a results dictionary can make to it in place.
Mutations(r) ==
    {[r EXCEPT !.collection_complete = FALSE], [r EXCEPT !.bullish_fvgs = <<>>]}

\* The caller changes, in place, the dictionary its last call returned.  When
\* that dictionary is the object held in cache['fvgs'], the cache holds the
\* changed dictionary and the hash recorded for the unchanged one.
CallerMutatesResult ==
    /\ ret.value # None
    /\ \E m \in Mutations(ret.value[1]) :
           /\ m # ret.value[1]
           /\ ret' = [ret EXCEPT !.value = Some(m)]
           /\ cache' = IF ret.shared THEN [cache EXCEPT !.fvgs = Some(m)] ELSE cache
    /\ UNCHANGED <<now, engine, loaded>>
    /\ UNCHANGED dvars
    /\ UNCHANGED pvars
    /\ UNCHANGED <<mvars, put>>

NextEngine ==
    \/ Tick
    \/ GetCachedResults
    \/ \E reply \in SourceReplies : \E target_fvgs \in Targets :
           CollectFromSource(reply, target_fvgs)
    \/ CallerMutatesResult

SpecEngine == InitEngine /\ [][NextEngine]_vars

(***************************************************************************)
(* collect_all_fvgs as a function of what the Candle Source holds: the      *)
(* batch and the target_fvgs are drawn at the start and the call applied.  *)
(***************************************************************************)
InitCollect ==
    /\ DetectionEngineInit
    /\ \E batch \in SourceBatches : \E target_fvgs \in Targets :
           loaded = Some([batch |-> batch, target_fvgs |-> target_fvgs])

CollectLoaded ==
    /\ loaded # None
    /\ CollectAllFvgs(loaded[1].batch, loaded[1].target_fvgs)

NextCollect == CollectLoaded

SpecCollect == InitCollect /\ [][NextCollect]_vars

(***************************************************************************)
(* The cache shared by two threads: one runs collect_all_fvgs, whose       *)
(* _update_cache makes its three assignments (lines 77, 78, 79) one at a   *)
(* time, the other calls get_cached_results between any two of them.       *)
(* processing_lock (line 46) is acquired nowhere, so nothing orders the    *)
(* two.  put.data is the dictionary being stored and put.replaced the      *)
(* last_update that line 77 overwrote, i.e. the time at which the          *)
(* dictionary still in cache['fvgs'] was stored.                           *)
(***************************************************************************)
\* The batches from which collect_all_fvgs reaches its _update_cache.
PutBatches == {batch \in SourceBatches : batch # <<>> /\ detect_fvgs_only(batch).error = None}

\* collect_all_fvgs from its start to line 77 of _update_cache: the cache
\* gave nothing, the results are computed and the time is recorded.
UpdateCacheLastUpdate(batch) ==
    /\ put.pc = "idle"
    /\ get_cached_results(cache, now) = None
    /\ \E results \in {ComputeResults(batch, detect_fvgs_only(batch), DefaultTargetFvgs)} :
           /\ put' = [pc |-> "stamped", data |-> Some(results), replaced |-> cache.last_update]
           /\ engine' = [bullish_fvgs |-> results.bullish_fvgs,
                         bearish_fvgs |-> results.bearish_fvgs]
    /\ cache' = [cache EXCEPT !.last_update = Some(now)]
    /\ UNCHANGED <<now, ret, loaded>>
    /\ UNCHANGED <<dvars, pvars, mvars>>

\* Line 78: the dictionary is stored.
UpdateCacheData ==
    /\ put.pc = "stamped"
    /\ cache' = [cache EXCEPT !.fvgs = put.data]
    /\ put' = [put EXCEPT !.pc = "stored"]
    /\ UNCHANGED <<now, engine, ret, loaded>>
    /\ UNCHANGED <<dvars, pvars, mvars>>

\* Line 79: its digest is recorded, and collect_all_fvgs returns.
UpdateCacheHash ==
    /\ put.pc = "stored"
    /\ cache' = [cache EXCEPT !.hash = Some(generate_cache_hash(cache.fvgs))]
    /\ put' = [pc |-> "idle", data |-> None, replaced |-> None]
    /\ UNCHANGED <<now, engine, ret, loaded>>
    /\ UNCHANGED <<dvars, pvars, mvars>>

NextCacheRace ==
    \/ Tick
    \/ GetCachedResults
    \/ \E batch \in PutBatches : UpdateCacheLastUpdate(batch)
    \/ UpdateCacheData
    \/ UpdateCacheHash

SpecCacheRace == InitEngine /\ [][NextCacheRace]_vars

(***************************************************************************)
(* The price activity: FVGMonitor.price_thread (main.py)                   *)
(*                                                                         *)
(* A duration in seconds is the quotient <<n, d>>.  One action is one turn *)
(* of the loop, from the test of self.running to the end of time.sleep.    *)
(***************************************************************************)
OverflowError == "OverflowError"

\* The quotient a is less than the quotient b.
QLess(a, b) == a[1] * b[2] < b[1] * a[2]

BaselineSleep == <<1, 10>>      \* time.sleep(0.1)
BackoffBase == <<2, 10>>        \* 0.2
BackoffCap == <<2, 1>>          \* 2.0

\* min(0.2 * 1.5 ** j * 1.5 ** (k - j), 2.0) for acc = 0.2 * 1.5 ** j: the
\* product is followed upwards until it reaches the cap, which it never
\* leaves again.
RECURSIVE MinBackoff(_, _, _)
MinBackoff(acc, j, k) ==
    IF ~QLess(acc, BackoffCap) THEN BackoffCap
    ELSE IF j = k THEN acc
    ELSE MinBackoff(<<3 * acc[1], 2 * acc[2]>>, j + 1, k)

\* min(0.2 * (1.5 ** consecutive_errors), 2.0): a float power that is out of
\* range raises OverflowError.
Backoff(k) ==
    IF k > MaxFloatExponent THEN Raised(OverflowError)
    ELSE Returned(MinBackoff(BackoffBase, 0, k))

\* What client.get_symbol_ticker does: it returns a price or it raises.
TickerReplies == {Returned(p) : p \in 0 .. 1} \cup {SourceFailure}

\* get_latest_price: the price, or None when anything was raised.
get_latest_price(reply) ==
    IF reply.raised # None THEN None ELSE Some(reply.value)

\* 'if price:' - None and 0.0 are false.
Truthy(price) == price # None /\ price[1] # 0

\* The failure branch of a turn: the counter is incremented and the sleep
\* computed, in the 'else' branch and, if that raised, once more in the
\* 'except' handler; what the handler raises leaves the thread.
PriceFailure ==
    \E first \in {Backoff(consecutive_errors + 1)} :
        IF first.raised = None
        THEN /\ consecutive_errors' = consecutive_errors + 1
             /\ price_sleep' = Some(first.value)
             /\ UNCHANGED <<price_pc, price_error>>
        ELSE \E second \in {Backoff(consecutive_errors + 2)} :
             /\ consecutive_errors' = consecutive_errors + 2
             /\ IF second.raised = None
                THEN /\ price_sleep' = Some(second.value)
                     /\ UNCHANGED <<price_pc, price_error>>
                ELSE /\ price_pc' = "dead"
                     /\ price_error' = second.raised
                     /\ UNCHANGED price_sleep

\* A plausible slip: price_queue made with maxsize=1, whose put waits until
\* display_thread has taken the previous item.
PriceIterationBlockingPut(reply) ==
    /\ price_pc = "loop"
    /\ running
    /\ \E price \in {get_latest_price(reply)} :
           IF Truthy(price)
           THEN /\ price_queue = <<>>
                /\ price_queue' = Append(price_queue, [price |-> price[1], time |-> now])
                /\ consecutive_errors' = 0
                /\ price_sleep' = Some(BaselineSleep)
                /\ UNCHANGED <<price_pc, price_error>>
           ELSE PriceFailure /\ UNCHANGED price_queue
    /\ UNCHANGED running
    /\ UNCHANGED <<dvars, evars, mvars, put>>

\* A plausible slip: the counter not reset by a successful poll.
PriceIterationNoReset(reply) ==
    /\ price_pc = "loop"
    /\ running
    /\ \E price \in {get_latest_price(reply)} :
           IF Truthy(price)
           THEN /\ Len(price_queue) < MaxPriceQueue
                /\ price_queue' = Append(price_queue, [price |-> price[1], time |-> now])
                /\ price_sleep' = Some(BaselineSleep)
                /\ UNCHANGED <<consecutive_errors, price_pc, price_error>>
           ELSE PriceFailure /\ UNCHANGED price_queue
    /\ UNCHANGED running
    /\ UNCHANGED <<dvars, evars, mvars, put>>

\* One turn of the loop of price_thread, the exchange answering with reply.
PriceIteration(reply) ==
    /\ price_pc = "loop"
    /\ running
    /\ \E price \in {get_latest_price(reply)} :
           IF Truthy(price)
           THEN /\ Len(price_queue) < MaxPriceQueue
                /\ price_queue' = Append(price_queue, [price |-> price[1], time |-> now])
                /\ consecutive_errors' = 0
                /\ price_sleep' = Some(BaselineSleep)
                /\ UNCHANGED <<price_pc, price_error>>
           ELSE PriceFailure /\ UNCHANGED price_queue
    /\ UNCHANGED running
    /\ UNCHANGED <<dvars, evars, mvars, put>>

\* 'while self.running' found false: price_thread returns.
PriceThreadEnds ==
    /\ price_pc = "loop"
    /\ ~running
    /\ price_pc' = "ended"
    /\ UNCHANGED <<running, consecutive_errors, price_queue, price_sleep, price_error>>
    /\ UNCHANGED <<dvars, evars, mvars, put>>

\* handle_exit: Ctrl+C.
HandleExit ==
    /\ running
    /\ running' = FALSE
    /\ UNCHANGED <<consecutive_errors, price_queue, price_pc, price_sleep, price_error>>
    /\ UNCHANGED <<dvars, evars, mvars, put>>

(***************************************************************************)
(* The render activity: FVGMonitor.display_thread (main.py)                *)
(*                                                                         *)
(* A cycle is three steps: the gap queue is emptied and its last item kept *)
(* (lines 153-163), the price queue likewise (166-175), and the screen is  *)
(* updated (178-190).  'while not q.empty(): q.get()' ends at the moment   *)
(* the queue is found empty and has then taken every item put before that  *)
(* moment; it is one step.  An exception raised in update_screen is caught *)
(* at line 192 and followed by a sleep: the cycle ends as it does without  *)
(* one.  The sleeps change nothing but the time.                           *)
(***************************************************************************)
Last(q) == q[Len(q)]

\* A plausible slip: get() called without the test of empty(), so that the
\* cycle waits until detection_thread has queued an item.
DisplayDrainsFvgsBlocking ==
    /\ disp_pc = "loop"
    /\ running
    /\ fvg_queue # <<>>
    /\ fvg_queue' = <<>>
    /\ update_needed' = TRUE
    /\ held' = [held EXCEPT !.bullish_fvgs = Last(fvg_queue).bullish,
                            !.bearish_fvgs = Last(fvg_queue).bearish,
                            !.last_fvg_update = Some(Last(fvg_queue).time)]
    /\ disp_pc' = "prices"
    /\ UNCHANGED <<det_pc, screen>>
    /\ UNCHANGED <<dvars, evars, pvars, put>>

\* A plausible slip: the oldest drained item kept (fvg_updates[0]).
DisplayDrainsFvgsOldest ==
    /\ disp_pc = "loop"
    /\ running
    /\ fvg_queue' = <<>>
    /\ update_needed' = (fvg_queue # <<>>)
    /\ held' = IF fvg_queue = <<>> THEN held
               ELSE [held EXCEPT !.bullish_fvgs = Head(fvg_queue).bullish,
                                 !.bearish_fvgs = Head(fvg_queue).bearish,
                                 !.last_fvg_update = Some(Head(fvg_queue).time)]
    /\ disp_pc' = "prices"
    /\ UNCHANGED <<det_pc, screen>>
    /\ UNCHANGED <<dvars, evars, pvars, put>>

\* Lines 143-163: a cycle begins; every queued gap item is taken and the
\* last one is kept.
DisplayDrainsFvgs ==
    /\ disp_pc = "loop"
    /\ running
    /\ fvg_queue' = <<>>
    /\ update_needed' = (fvg_queue # <<>>)
    /\ held' = IF fvg_queue = <<>> THEN held
               ELSE [held EXCEPT !.bullish_fvgs = Last(fvg_queue).bullish,
                                 !.bearish_fvgs = Last(fvg_queue).bearish,
                                 !.last_fvg_update = Some(Last(fvg_queue).time)]
    /\ disp_pc' = "prices"
    /\ UNCHANGED <<det_pc, screen>>
    /\ UNCHANGED <<dvars, evars, pvars, put>>

\* Lines 165-175: every queued price is taken and the last one is kept.
DisplayDrainsPrices ==
    /\ disp_pc = "prices"
    /\ price_queue' = <<>>
    /\ update_needed' = (update_needed \/ price_queue # <<>>)
    /\ held' = IF price_queue = <<>> THEN held
               ELSE [held EXCEPT !.latest_price = Some(Last(price_queue).price),
                                 !.last_update = Some(Last(price_queue).time)]
    /\ disp_pc' = "render"
    /\ UNCHANGED <<fvg_queue, det_pc, screen>>
    /\ UNCHANGED <<running, consecutive_errors, price_pc, price_sleep, price_error>>
    /\ UNCHANGED <<dvars, evars, put>>

\* The arguments of update_screen (symbol and timeframe never change).
MergedView ==
    [latest_price |-> held.latest_price[1],
     last_update |-> held.last_update[1],
     bullish_fvgs |-> held.bullish_fvgs,
     bearish_fvgs |-> held.bearish_fvgs]

\* A plausible slip: the screen updated without looking at the gap lists.
DisplayRendersWithoutGaps ==
    /\ disp_pc = "render"
    /\ IF update_needed /\ Truthy(held.latest_price)
       THEN screen' = [invoked |-> TRUE, view |-> Some(MergedView)]
       ELSE screen' = [screen EXCEPT !.invoked = FALSE]
    /\ disp_pc' = "loop"
    /\ UNCHANGED <<fvg_queue, det_pc, held, update_needed>>
    /\ UNCHANGED <<dvars, evars, pvars, put>>

\* Lines 177-190: update_screen is called, or not, and the cycle ends.
DisplayRenders ==
    /\ disp_pc = "render"
    /\ IF /\ update_needed
          /\ Truthy(held.latest_price)
          /\ (held.bullish_fvgs # <<>> \/ held.bearish_fvgs # <<>>)
       THEN screen' = [invoked |-> TRUE, view |-> Some(MergedView)]
       ELSE screen' = [screen EXCEPT !.invoked = FALSE]
    /\ disp_pc' = "loop"
    /\ UNCHANGED <<fvg_queue, det_pc, held, update_needed>>
    /\ UNCHANGED <<dvars, evars, pvars, put>>

\* 'while self.running' found false: display_thread returns.
DisplayThreadEnds ==
    /\ disp_pc = "loop"
    /\ ~running
    /\ disp_pc' = "ended"
    /\ UNCHANGED <<fvg_queue, det_pc, held, update_needed, screen>>
    /\ UNCHANGED <<dvars, evars, pvars, put>>

(***************************************************************************)
(* The detection activity: FVGMonitor.detection_thread (main.py)           *)
(*                                                                         *)
(* One action is one turn of the loop.  The engine belongs to this thread  *)
(* alone, so the two calls of a turn are taken together; the queue item    *)
(* carries the time read at line 86.                                       *)
(***************************************************************************)
\* The item put on fvg_queue for a results dictionary.
FvgItem(results, current_time) ==
    [bullish |-> results.bullish_fvgs, bearish |-> results.bearish_fvgs,
     time |-> current_time]

\* A plausible slip: 'while True' for 'while self.running'.
DetectionCycleForever(reply) ==
    /\ det_pc = "loop"
    /\ Len(fvg_queue) < MaxFvgQueue
    /\ IF get_cached_results(cache, now) # None
       THEN /\ EngineGetCachedResults
            /\ fvg_queue' = Append(fvg_queue, FvgItem(ret'.value[1], now))
            /\ UNCHANGED held
       ELSE \E batch_candles \in {load_candlestick_batch(reply)} :
            IF batch_candles.raised # None
            THEN /\ ret' = Outcome("collect", None, FALSE, batch_candles.raised, TRUE)
                 /\ engine' = [bullish_fvgs |-> <<>>, bearish_fvgs |-> <<>>]
                 /\ UNCHANGED <<now, cache, loaded, fvg_queue, held>>
            ELSE /\ EngineCollectAllFvgs(batch_candles.value, DefaultTargetFvgs)
                 /\ IF ret'.raised # None
                    THEN UNCHANGED <<fvg_queue, held>>
                    ELSE /\ fvg_queue' = Append(fvg_queue, FvgItem(ret'.value[1], now))
                         /\ held' = [held EXCEPT !.last_fvg_update = Some(now)]
    /\ UNCHANGED <<det_pc, disp_pc, update_needed, screen>>
    /\ UNCHANGED <<dvars, pvars, put>>

\* One turn of the loop of detection_thread, the exchange answering with
\* reply: the cached results are queued (lines 90-99), or collect_all_fvgs
\* is called and its results are queued (102-111); an exception is caught
\* at line 113 and nothing is queued.
DetectionCycle(reply) ==
    /\ det_pc = "loop"
    /\ running
    /\ Len(fvg_queue) < MaxFvgQueue
    /\ IF get_cached_results(cache, now) # None
       THEN /\ EngineGetCachedResults
            /\ fvg_queue' = Append(fvg_queue, FvgItem(ret'.value[1], now))
            /\ UNCHANGED held
       ELSE \E batch_candles \in {load_candlestick_batch(reply)} :
            IF batch_candles.raised # None
            THEN /\ ret' = Outcome("collect", None, FALSE, batch_candles.raised, TRUE)
                 /\ engine' = [bullish_fvgs |-> <<>>, bearish_fvgs |-> <<>>]
                 /\ UNCHANGED <<now, cache, loaded, fvg_queue, held>>
            ELSE /\ EngineCollectAllFvgs(batch_candles.value, DefaultTargetFvgs)
                 /\ IF ret'.raised # None
                    THEN UNCHANGED <<fvg_queue, held>>
                    ELSE /\ fvg_queue' = Append(fvg_queue, FvgItem(ret'.value[1], now))
                         /\ held' = [held EXCEPT !.last_fvg_update = Some(now)]
    /\ UNCHANGED <<det_pc, disp_pc, update_needed, screen>>
    /\ UNCHANGED <<dvars, pvars, put>>

\* 'while self.running' found false: detection_thread returns.
DetectionThreadEnds ==
    /\ det_pc = "loop"
    /\ ~running
    /\ det_pc' = "ended"
    /\ UNCHANGED <<fvg_queue, disp_pc, held, update_needed, screen>>
    /\ UNCHANGED <<dvars, evars, pvars, put>>

\* After handle_exit's sys.exit(0) the main thread leaves monitor_fvgs
\* (lines 225-227) and the interpreter ends: the three daemon threads that
\* are still alive are stopped where they are.
Stopped(thread_pc) ==
    IF thread_pc \in {"ended", "dead"} THEN thread_pc ELSE "killed"

InterpreterExits ==
    /\ ~running
    /\ <<det_pc, price_pc, disp_pc>> # <<Stopped(det_pc), Stopped(price_pc), Stopped(disp_pc)>>
    /\ det_pc' = Stopped(det_pc)
    /\ price_pc' = Stopped(price_pc)
    /\ disp_pc' = Stopped(disp_pc)
    /\ UNCHANGED <<running, consecutive_errors, price_queue, price_sleep, price_error>>
    /\ UNCHANGED <<fvg_queue, held, update_needed, screen>>
    /\ UNCHANGED <<dvars, evars, put>>

InitPrice ==
    /\ DetectionEngineInit
    /\ loaded = None

NextPrice ==
    \/ \E reply \in TickerReplies : PriceIteration(reply)
    \/ PriceThreadEnds
    \/ HandleExit
    \/ DisplayDrainsFvgs
    \/ DisplayDrainsPrices
    \/ DisplayRenders
    \/ DisplayThreadEnds

SpecPrice == InitPrice /\ [][NextPrice]_vars

(***************************************************************************)
(* The coordinator: the three activities of monitor_fvgs together, and its *)
(* shutdown.  The periods of the activities (0.05 s to 0.2 s) are shorter  *)
(* than the second in which the clock and the cache duration are counted:  *)
(* SpecMonitor follows the activities within one second, and SpecDetection *)
(* follows the detection and render activities as the clock advances and   *)
(* the cached snapshot expires.                                            *)
(***************************************************************************)
\* What the exchange holds when the detection activity asks: nothing, three
\* candles without a gap, three with a bearish gap, the worked example, and
\* three candles whose bearish gap has the reference price 0.
MonitorBatches ==
    {<<>>,
     CandleSeq(3, <<[High |-> 1, Low |-> 1], [High |-> 1, Low |-> 1], [High |-> 1, Low |-> 1]>>),
     CandleSeq(3, <<[High |-> 1, Low |-> 1], [High |-> 1, Low |-> 1], [High |-> 2, Low |-> 2]>>),
     CandleSeq(3, <<[High |-> 0, Low |-> 0], [High |-> 0, Low |-> 0], [High |-> 1, Low |-> 1]>>)}
        \cup ExampleSeqs

MonitorReplies == {Returned(batch) : batch \in MonitorBatches} \cup {SourceFailure}

InitMonitor ==
    /\ DetectionEngineInit
    /\ cache.cache_duration = MonitorCacheDuration
    /\ loaded = None

NextMonitor ==
    \/ \E reply \in MonitorReplies : DetectionCycle(reply)
    \/ DetectionThreadEnds
    \/ \E reply \in TickerReplies :
           PriceIteration(reply) /\ consecutive_errors' <= MaxPriceErrors
    \/ PriceThreadEnds
    \/ DisplayDrainsFvgs
    \/ DisplayDrainsPrices
    \/ DisplayRenders
    \/ DisplayThreadEnds
    \/ HandleExit
    \/ InterpreterExits

SpecMonitor == InitMonitor /\ [][NextMonitor]_vars

NextDetection ==
    \/ Tick
    \/ \E reply \in MonitorReplies : DetectionCycle(reply)
    \/ DisplayDrainsFvgs
    \/ DisplayDrainsPrices
    \/ DisplayRenders

SpecDetection == InitMonitor /\ [][NextDetection]_vars

\* Every activity that can take a step eventually takes one.
DetectionThread == (\E reply \in MonitorReplies : DetectionCycle(reply)) \/ DetectionThreadEnds
PriceThread ==
    \/ \E reply \in TickerReplies :
           PriceIteration(reply) /\ consecutive_errors' <= MaxPriceErrors
    \/ PriceThreadEnds
DisplayThread == DisplayDrainsFvgs \/ DisplayDrainsPrices \/ DisplayRenders \/ DisplayThreadEnds

FairSpecMonitor ==
    /\ SpecMonitor
    /\ WF_vars(DetectionThread)
    /\ WF_vars(PriceThread)
    /\ WF_vars(DisplayThread)

(***************************************************************************)
(* Claims about the coordinator (checked under SpecMonitor; C30 under      *)
(* SpecDetection)                                                          *)
(***************************************************************************)
\* C21: each of the two channels holds at most one undrained value.
C21_SingleSlotChannels ==
    /\ Len(fvg_queue) <= 1
    /\ Len(price_queue) <= 1

\* The step of a display cycle in which update_screen was called.
RenderStep == disp_pc = "render" /\ disp_pc' = "loop" /\ screen'.invoked

\* C22: update_screen is called in a cycle only if, after the cycle's
\* drain, a price is held and one of the two held gap lists is not empty;
\* it is given the held values.
C22_RenderGuard ==
    [][RenderStep =>
          /\ held.latest_price # None
          /\ held.bullish_fvgs # <<>> \/ held.bearish_fvgs # <<>>
          /\ screen'.view = Some(MergedView)]_vars

\* The screen has been updated with one gap list empty and the other not.
C22_Witness ==
    /\ screen.invoked
    /\ screen.view # None
    /\ screen.view[1].bullish_fvgs = <<>>
    /\ screen.view[1].bearish_fvgs # <<>>

\* C23: update_screen is called only if the held price or the held gaps
\* changed since the last call: two consecutive calls never get the same
\* merged view.
C23_RenderOncePerChange ==
    [][RenderStep => (screen.view # None => screen'.view # screen.view)]_vars

\* The two drains of a display cycle that found something in the queue.
FvgDrain == disp_pc = "loop" /\ disp_pc' = "prices" /\ fvg_queue # <<>>
PriceDrain == disp_pc = "prices" /\ disp_pc' = "render" /\ price_queue # <<>>

AllStopped ==
    /\ det_pc \in {"ended", "killed"}
    /\ price_pc \in {"ended", "killed", "dead"}
    /\ disp_pc \in {"ended", "killed"}

\* No activity begins a cycle in this step.
NoCycleStarts ==
    /\ UNCHANGED <<cache, engine, ret, consecutive_errors, price_sleep>>
    /\ Len(fvg_queue') <= Len(fvg_queue)
    /\ Len(price_queue') <= Len(price_queue)
    /\ ~(disp_pc = "loop" /\ disp_pc' = "prices")

\* C25: once running is false it stays false, no activity begins a cycle,
\* and every activity eventually stops.
C25_Cancellation ==
    /\ [](~running => []~running)
    /\ [][~running => NoCycleStarts]_vars
    /\ (~running ~> AllStopped)

\* After the shutdown the three activities have each found the flag false
\* and returned, with values still queued.
C25_Witness ==
    /\ ~running
    /\ det_pc = "ended"
    /\ price_pc = "ended"
    /\ disp_pc = "ended"
    /\ fvg_queue # <<>>

\* C28: no exception ends the loop of an activity: none of the three
\* threads is left by an exception.
C28_ExceptionsContained ==
    /\ price_error = None
    /\ price_pc # "dead"
    /\ det_pc # "dead"
    /\ disp_pc # "dead"

\* C30: the cached snapshot always has the digest recorded for it; the entry
\* changes only by a computation storing a new snapshot, which it returns;
\* and the items queued and the lists held, which are the lists of earlier
\* snapshots, are changed by no step: the queue is emptied or extended, the
\* held lists are replaced by those of a drained item.
C30_PublishedImmutable ==
    [][/\ cache'.hash # None => Some(generate_cache_hash(cache'.fvgs)) = cache'.hash
       /\ cache'.fvgs # cache.fvgs =>
              /\ cache'.last_update = Some(now)
              /\ ret'.value = cache'.fvgs
              /\ ret'.queried
       /\ \/ fvg_queue' = <<>>
          \/ fvg_queue' = fvg_queue
          \/ /\ Len(fvg_queue') = Len(fvg_queue) + 1
             /\ SubSeq(fvg_queue', 1, Len(fvg_queue)) = fvg_queue
       /\ (held'.bullish_fvgs # held.bullish_fvgs \/ held'.bearish_fvgs # held.bearish_fvgs)
              => FvgDrain]_vars

\* The lists held come from an earlier snapshot, with a mitigated gap, and
\* the cache holds the snapshot of a later computation.
C30_Witness ==
    /\ held.bullish_fvgs # <<>>
    /\ held.bullish_fvgs[1].status = "mitigated"
    /\ cache.fvgs # None
    /\ cache.fvgs[1].bullish_fvgs = <<>>
    /\ cache.fvgs[1].bearish_fvgs # <<>>
    /\ cache.last_update = Some(1)

\* A step of the display activity within its loop: its position moves.
DisplayStep == disp_pc' # disp_pc /\ disp_pc' \in {"loop", "prices", "render"}

\* C32: every field of the monitor has one writer: the held price, gap
\* lists and times of update, update_needed and the screen change only in
\* steps of the display activity, and the engine and its cache change in no
\* step of the display or of the price activity.
C32_SingleWriter ==
    [][/\ (\E f \in DOMAIN held : held'[f] # held[f]) => DisplayStep
       /\ (update_needed' # update_needed \/ screen' # screen) => DisplayStep
       /\ (cache' # cache \/ engine' # engine \/ ret' # ret) =>
              /\ ~DisplayStep
              /\ UNCHANGED <<consecutive_errors, price_sleep, price_queue>>]_vars

\* C33: no activity waits on another.  Whatever the other two are doing, an
\* activity that is in its loop can take its next step with every answer of
\* the exchange (the queue bounds are the model's, not the program's), and
\* each drain of the display activity can be taken whether or not anything
\* is queued.
C33_ActivitiesIndependent ==
    /\ (price_pc = "loop" /\ running /\ Len(price_queue) < MaxPriceQueue) =>
           \A reply \in TickerReplies : ENABLED PriceIteration(reply)
    /\ (det_pc = "loop" /\ running /\ Len(fvg_queue) < MaxFvgQueue) =>
           \A reply \in MonitorReplies : ENABLED DetectionCycle(reply)
    /\ (disp_pc = "loop" /\ running) => ENABLED DisplayDrainsFvgs
    /\ disp_pc = "prices" => ENABLED DisplayDrainsPrices
    /\ disp_pc = "render" => ENABLED DisplayRenders

\* A price is queued and not yet taken, a gap item likewise, the display
\* activity is in the middle of a cycle, and the price activity is in its
\* loop.
C33_Witness ==
    /\ running
    /\ price_pc = "loop"
    /\ det_pc = "loop"
    /\ price_queue # <<>>
    /\ Len(price_queue) < MaxPriceQueue
    /\ fvg_queue # <<>>
    /\ disp_pc = "render"

\* C39: while the monitor is running every queued gap item and every
\* queued price is eventually taken by the display activity, which is the
\* only one to take anything from the queues, and whose drains can be taken
\* whether or not anything is queued.
C39_NoStuckUpdates ==
    /\ (fvg_queue # <<>>) ~> (fvg_queue = <<>> \/ ~running)
    /\ (price_queue # <<>>) ~> (price_queue = <<>> \/ ~running)
    /\ [][/\ Len(fvg_queue') < Len(fvg_queue) => FvgDrain
          /\ Len(price_queue') < Len(price_queue) => PriceDrain]_vars
    /\ []((disp_pc = "loop" /\ running) => ENABLED DisplayDrainsFvgs)
    /\ [](disp_pc = "prices" => ENABLED DisplayDrainsPrices)

\* The gap items have just been taken, all of them, while as many prices
\* as the queue holds are waiting for the second drain.
C39_Witness ==
    /\ running
    /\ disp_pc = "prices"
    /\ update_needed
    /\ fvg_queue = <<>>
    /\ held.last_fvg_update # None
    /\ Len(price_queue) = MaxPriceQueue

(***************************************************************************)
(* Claims about the price activity (checked under SpecPrice)               *)
(***************************************************************************)
\* A turn of the loop whose poll failed: the failure counter moved away from
\* its value and not back to 0.
FailedPoll == consecutive_errors' # consecutive_errors /\ consecutive_errors' # 0

\* A turn of the loop whose poll succeeded: a price was queued.
SuccessfulPoll == Len(price_queue') > Len(price_queue)

\* min(0.2 * 1.5^k, 2.0) as a quotient.
ExpectedWait(k) == MinBackoff(BackoffBase, 0, k)

\* C19: after the k-th consecutive failed price poll the price activity
\* waits min(0.2 * 1.5^k, 2.0) seconds before the next poll, for every
\* k >= 1: the failed poll is counted once, the activity goes on to its next
\* poll, and its wait is the capped product, which is at most 2.0 seconds and
\* not less than the wait before it.
C19_BackoffGrowthAndCap ==
    [][FailedPoll =>
          /\ consecutive_errors' = consecutive_errors + 1
          /\ price_pc' = "loop"
          /\ price_sleep' = Some(ExpectedWait(consecutive_errors'))
          /\ ~QLess(BackoffCap, price_sleep'[1])
          /\ (consecutive_errors > 0 => ~QLess(price_sleep'[1], price_sleep[1]))]_vars

\* C20: a successful price poll sets the failure counter to 0 and the wait
\* to the baseline 0.1 s, whatever the counter was; and a failed poll that
\* finds the counter at 0 is the first failure: counter 1, wait 0.2 * 1.5.
C20_SuccessResetsBackoff ==
    [][/\ SuccessfulPoll =>
            /\ consecutive_errors' = 0
            /\ price_sleep' = Some(BaselineSleep)
       /\ (FailedPoll /\ consecutive_errors = 0) =>
            /\ consecutive_errors' = 1
            /\ price_sleep' = Some(<<6, 20>>)]_vars

\* A success has been polled (its price is queued) and the activity is back
\* at counter 0 and the baseline wait, after a wait that was a backoff.
C20_Witness ==
    /\ consecutive_errors = 0
    /\ price_sleep = Some(BaselineSleep)
    /\ price_queue # <<>>
    /\ price_pc = "loop"

(***************************************************************************)
(* Properties of the Gap Detector                                          *)
(***************************************************************************)
AllFvgs == bullish_fvgs \o bearish_fvgs

Windows(cs) == 1 .. (Len(cs) - 2)

BearishWindow(cs, i) == cs[i].High < cs[i + 2].Low
BullishWindow(cs, i) == cs[i].Low > cs[i + 2].High

\* The positions of the gaps emitted for the window that starts at i.
EmittedFor(fvgs, i) == {j \in 1 .. Len(fvgs) : fvgs[j].index = i}

\* C1 (as stated): once detect_fvgs_only has run, every window with
\* third.High < first.Low has exactly one gap, a bearish one, with
\* gap_low = third.High, gap_high = first.Low and time = middle.Time.
C1_BearishRule ==
    pc # "new" =>
        \A i \in Windows(candles) :
            BearishWindow(candles, i) =>
                /\ det_error = None
                /\ Cardinality(EmittedFor(AllFvgs, i)) = 1
                /\ \E j \in EmittedFor(bearish_fvgs, i) :
                       /\ bearish_fvgs[j].type = "bearish"
                       /\ bearish_fvgs[j].gap_low = candles[i].High
                       /\ bearish_fvgs[j].gap_high = candles[i + 2].Low
                       /\ bearish_fvgs[j].time = candles[i + 1].Time

\* C1, what the code does: the rule holds in the runs in which no division
\* by a zero reference price ended the detection.
C1_BearishRuleWhenReturned ==
    (pc # "new" /\ det_error = None) =>
        \A i \in Windows(candles) :
            BearishWindow(candles, i) =>
                /\ Cardinality(EmittedFor(AllFvgs, i)) = 1
                /\ \E j \in EmittedFor(bearish_fvgs, i) :
                       /\ bearish_fvgs[j].type = "bearish"
                       /\ bearish_fvgs[j].gap_low = candles[i].High
                       /\ bearish_fvgs[j].gap_high = candles[i + 2].Low
                       /\ bearish_fvgs[j].time = candles[i + 1].Time

\* C2 (as stated): once detect_fvgs_only has run, every window with
\* third.Low > first.High has exactly one gap, a bullish one, with
\* gap_low = first.High, gap_high = third.Low and time = middle.Time.
C2_BullishRule ==
    pc # "new" =>
        \A i \in Windows(candles) :
            BullishWindow(candles, i) =>
                /\ det_error = None
                /\ Cardinality(EmittedFor(AllFvgs, i)) = 1
                /\ \E j \in EmittedFor(bullish_fvgs, i) :
                       /\ bullish_fvgs[j].type = "bullish"
                       /\ bullish_fvgs[j].gap_low = candles[i + 2].High
                       /\ bullish_fvgs[j].gap_high = candles[i].Low
                       /\ bullish_fvgs[j].time = candles[i + 1].Time

\* C2, what the code does: in the runs in which detection returned, the
\* bullish rule holds for every window that is not also a bearish window
\* (the bearish test comes first and returns).
C2_BullishRuleWhenReturned ==
    (pc # "new" /\ det_error = None) =>
        \A i \in Windows(candles) :
            (BullishWindow(candles, i) /\ ~BearishWindow(candles, i)) =>
                /\ Cardinality(EmittedFor(AllFvgs, i)) = 1
                /\ \E j \in EmittedFor(bullish_fvgs, i) :
                       /\ bullish_fvgs[j].type = "bullish"
                       /\ bullish_fvgs[j].gap_low = candles[i + 2].High
                       /\ bullish_fvgs[j].gap_high = candles[i].Low
                       /\ bullish_fvgs[j].time = candles[i + 1].Time

\* C3: on a sequence of fewer than three candles detect_fvgs_only returns
\* two empty lists and raises nothing.
C3_ShortSequenceEmpty ==
    (pc # "new" /\ Len(candles) < 3) =>
        /\ det_error = None
        /\ pc \in {"detected", "checked"}
        /\ bullish_fvgs = <<>>
        /\ bearish_fvgs = <<>>

C3_Witness == pc = "detected" /\ Len(candles) = 2

\* C4: a window yields at most one gap, and only if it satisfies that gap's
\* condition: no two emitted gaps share an index, every gap's index is a
\* window whose candles satisfy the condition of the gap's type, and the two
\* lists together hold at most Len(candles) - 2 gaps.
C4_AtMostOneGapPerWindow ==
    /\ \A j, k \in 1 .. Len(AllFvgs) :
           AllFvgs[j].index = AllFvgs[k].index => j = k
    /\ \A j \in 1 .. Len(AllFvgs) :
           /\ AllFvgs[j].index \in Windows(candles)
           /\ AllFvgs[j].type = "bearish" => BearishWindow(candles, AllFvgs[j].index)
           /\ AllFvgs[j].type = "bullish" => BullishWindow(candles, AllFvgs[j].index)
    /\ Len(AllFvgs) > 0 => Len(AllFvgs) <= Len(candles) - 2
    /\ \A j \in 1 .. Len(bullish_fvgs) : bullish_fvgs[j].type = "bullish"
    /\ \A j \in 1 .. Len(bearish_fvgs) : bearish_fvgs[j].type = "bearish"

\* A window of candles violating High >= Low meets both conditions, and
\* detection has returned.
C4_Witness ==
    /\ pc = "detected"
    /\ \E i \in Windows(candles) :
           /\ BearishWindow(candles, i)
           /\ BullishWindow(candles, i)
           /\ Cardinality(EmittedFor(AllFvgs, i)) = 1

\* C5: every gap has gap_low < gap_high and gap_size = gap_high - gap_low
\* > 0, after detection and after every check_mitigations call.
C5_LowBelowHigh ==
    \A j \in 1 .. Len(AllFvgs) :
        /\ AllFvgs[j].gap_low < AllFvgs[j].gap_high
        /\ AllFvgs[j].gap_size = AllFvgs[j].gap_high - AllFvgs[j].gap_low
        /\ AllFvgs[j].gap_size > 0

C5_Witness ==
    /\ pc = "checked"
    /\ \E j \in 1 .. Len(bullish_fvgs) : bullish_fvgs[j].status = "mitigated"
    /\ \E j \in 1 .. Len(bearish_fvgs) : bearish_fvgs[j].status = "unfilled"

\* The percentage of the gap of window i divides by zero: the window is
\* malformed.
ZeroReference(cs, i) ==
    \/ BearishWindow(cs, i) /\ cs[i].High = 0
    \/ ~BearishWindow(cs, i) /\ BullishWindow(cs, i) /\ cs[i + 2].High = 0

\* C29: a window with a malformed candle (here: a zero reference price for
\* the percentage) is skipped and nothing else is lost: detect_fvgs_only
\* raises nothing, no gap is emitted for a malformed window, and every
\* well-formed window that satisfies a gap condition, before or after a
\* malformed one, has its gap in the lists.
C29_MalformedWindowSkipped ==
    pc # "new" =>
        /\ det_error = None
        /\ \A i \in Windows(candles) :
               IF ZeroReference(candles, i)
               THEN EmittedFor(AllFvgs, i) = {}
               ELSE (BearishWindow(candles, i) \/ BullishWindow(candles, i))
                        => EmittedFor(AllFvgs, i) # {}

(***************************************************************************)
(* Properties of the Mitigation Tracker                                    *)
(***************************************************************************)
\* A candle occupies the zone of a gap.
Occupies(c, fvg) ==
    IF fvg.type = "bullish" THEN c.Low <= fvg.gap_high ELSE c.High >= fvg.gap_low

\* The positions of the oldest candle of input and of the oldest of the rest.
OldestPos(input, except) ==
    CHOOSE p \in (1 .. Len(input)) \ except :
        \A q \in (1 .. Len(input)) \ except : input[p].Time <= input[q].Time

\* timeframeSeconds: the spacing between the two oldest candles of input.
OldestSpacing(input) ==
    LET p == OldestPos(input, {})
        q == OldestPos(input, {p})
    IN  Timestamp(input[q].Time) - Timestamp(input[p].Time)

\* formationCompleteAt of a gap for a tracker built from input.
FormationCompleteAt(fvg, input) == Timestamp(fvg.time) + OldestSpacing(input)

\* The positions in input of the occupying candles strictly after
\* formationCompleteAt.
OccupyingAfter(fvg, input) ==
    {k \in 1 .. Len(input) :
        /\ Timestamp(input[k].Time) > FormationCompleteAt(fvg, input)
        /\ Occupies(input[k], fvg)}

\* input is sorted newest first, as the Candle Source supplies it.
NewestFirst(input) ==
    \A k \in 1 .. Len(input) - 1 : input[k].Time > input[k + 1].Time

NoMitigationFields(fvg) ==
    /\ fvg.first_mitigation_time = None
    /\ fvg.last_mitigation_time = None
    /\ fvg.time_to_mitigation = None

\* C6: after check_mitigations on a tracker built from at least two candles,
\* a gap that was unfilled is mitigated iff some candle strictly after
\* formationCompleteAt occupies its zone; otherwise it stays unfilled with no
\* mitigation field set.
C6_MitigatedIffOccupied ==
    [][\A input \in TrackerInputs :
          (Len(input) >= 2 /\ CheckMitigations(input)) =>
              \A j \in 1 .. Len(AllFvgs) :
                  AllFvgs[j].status = "unfilled" =>
                      /\ (AllFvgs'[j].status = "mitigated")
                             <=> (OccupyingAfter(AllFvgs[j], input) # {})
                      /\ AllFvgs'[j].status # "mitigated" =>
                             /\ AllFvgs'[j].status = "unfilled"
                             /\ NoMitigationFields(AllFvgs'[j])]_vars

\* A call has left one gap mitigated and another, of the same list, unfilled.
C6_Witness ==
    /\ pc = "checked"
    /\ \E j, k \in 1 .. Len(bullish_fvgs) :
           /\ bullish_fvgs[j].status = "mitigated"
           /\ bullish_fvgs[k].status = "unfilled"
           /\ NoMitigationFields(bullish_fvgs[k])
           /\ OccupyingAfter(bullish_fvgs[j], candles) # {}
           /\ OccupyingAfter(bullish_fvgs[k], candles) = {}

\* The earliest of the occupying candles strictly after formationCompleteAt.
EarliestOccupying(fvg, input) ==
    CHOOSE k \in OccupyingAfter(fvg, input) :
        \A m \in OccupyingAfter(fvg, input) : input[k].Time <= input[m].Time

\* The quotient <<n, d>> equals a / b.
QuotientIs(x, a, b) == x # None /\ x[1] * b = a * x[2]

C8_MitigationMonotonic ==
    [][pc # "new" =>
          /\ Len(bullish_fvgs') = Len(bullish_fvgs)
          /\ Len(bearish_fvgs') = Len(bearish_fvgs)
          /\ \A j \in 1 .. Len(AllFvgs) :
                 /\ AllFvgs[j].status = "mitigated" =>
                        AllFvgs'[j].status = "mitigated"
                 /\ AllFvgs[j].first_mitigation_time # None =>
                        AllFvgs'[j].first_mitigation_time
                            = AllFvgs[j].first_mitigation_time
                 /\ AllFvgs[j].status = "mitigated" <=>
                        AllFvgs[j].first_mitigation_time # None]_vars

\* A gap is mitigated, and a candle list the next call may be given would
\* mitigate it at another candle were the gap walked again.
C8_Witness ==
    /\ pc = "checked"
    /\ \E j \in 1 .. Len(AllFvgs) :
           /\ AllFvgs[j].status = "mitigated"
           /\ \E input \in TrackerInputs :
                  /\ Len(input) >= 2
                  /\ OccupyingAfter(AllFvgs[j], input) # {}
                  /\ Some(input[EarliestOccupying(AllFvgs[j], input)].Time)
                         # AllFvgs[j].first_mitigation_time

\* The last candle of the run of consecutive occupying candles that starts at
\* the earliest occupying candle, among the candles of a newest-first input
\* that are strictly after formationCompleteAt (position k - 1 is the candle
\* that follows position k in time).
RunEnd(fvg, input) ==
    LET e == EarliestOccupying(fvg, input)
    IN  CHOOSE k \in 1 .. e :
            /\ \A m \in k .. e : Occupies(input[m], fvg)
            /\ k = 1 \/ ~Occupies(input[k - 1], fvg)

MitigationFieldsConsistent(fvg) ==
    /\ fvg.status \in {"unfilled", "mitigated"}
    /\ fvg.status = "mitigated" <=> fvg.first_mitigation_time # None
    /\ fvg.first_mitigation_time # None <=> fvg.last_mitigation_time # None
    /\ fvg.last_mitigation_time # None <=> fvg.time_to_mitigation # None
    /\ fvg.status = "mitigated" =>
           /\ Timestamp(fvg.first_mitigation_time[1]) > Timestamp(fvg.time) + TimeframeSeconds
           /\ Timestamp(fvg.last_mitigation_time[1]) > Timestamp(fvg.time) + TimeframeSeconds
           /\ fvg.time_to_mitigation[1] > 0
           /\ fvg.time_to_mitigation[2] > 0
           /\ fvg.first_mitigation_time[1] <= fvg.last_mitigation_time[1]

\* C34: after detection and any number of check_mitigations calls, every
\* gap is mitigated iff each of its three mitigation fields is set, and then
\* first_mitigation_time <= last_mitigation_time, both are later than
\* formationCompleteAt, and time_to_mitigation > 0.
C34_MitigationFieldsConsistent ==
    \A j \in 1 .. Len(AllFvgs) : MitigationFieldsConsistent(AllFvgs[j])

\* The times of the three candles that formed a gap: the gap carries the
\* time of the middle one.
OwnPattern(fvg) == {fvg.time - 1, fvg.time, fvg.time + 1}

\* C35: with candles at constant spacing, a call that mitigates a gap
\* records as first and last occupying candle none of the three candles
\* that formed it, but candles later than the third; and a gap whose third
\* candle is the newest candle of the list is left as it is.
C35_NotMitigatedByOwnPattern ==
    [][\A input \in TrackerInputs :
          (Len(input) >= 2 /\ CheckMitigations(input)) =>
              \A j \in 1 .. Len(AllFvgs) :
                  AllFvgs[j].status = "unfilled" =>
                      /\ AllFvgs'[j].status = "mitigated" =>
                             /\ AllFvgs'[j].first_mitigation_time[1] \notin OwnPattern(AllFvgs[j])
                             /\ AllFvgs'[j].last_mitigation_time[1] \notin OwnPattern(AllFvgs[j])
                             /\ AllFvgs'[j].first_mitigation_time[1] > AllFvgs[j].time + 1
                             /\ AllFvgs'[j].last_mitigation_time[1] > AllFvgs[j].time + 1
                      /\ (\A k \in 1 .. Len(input) : input[k].Time <= AllFvgs[j].time + 1) =>
                             AllFvgs'[j] = AllFvgs[j]]_vars

\* After a call, a gap whose third candle is the newest candle is unfilled,
\* though that candle reaches into its zone, and an older gap is mitigated.
C35_Witness ==
    /\ pc = "checked"
    /\ \E j, k \in 1 .. Len(AllFvgs) :
           /\ AllFvgs[j].time + 1 = Len(candles)
           /\ AllFvgs[j].status = "unfilled"
           /\ Occupies(candles[1], AllFvgs[j])
           /\ AllFvgs[k].status = "mitigated"

\* C36: a second check_mitigations with the same candles on the same two
\* lists leaves every gap as the first call left it.
C36_TrackerIdempotent ==
    [][\A input \in TrackerInputs :
          CheckMitigations(input) =>
              /\ check_mitigations(bullish_fvgs', TRUE, MitigationDetectorInit(input)) = bullish_fvgs'
              /\ check_mitigations(bearish_fvgs', FALSE, MitigationDetectorInit(input)) = bearish_fvgs']_vars

\* After a call, one gap is mitigated by a run of two candles that ends
\* before the newest candle, and another gap is unfilled: a second call
\* skips the one and walks the other again.
C36_Witness ==
    /\ pc = "checked"
    /\ \E j, k \in 1 .. Len(AllFvgs) :
           /\ AllFvgs[j].status = "mitigated"
           /\ AllFvgs[j].first_mitigation_time[1] < AllFvgs[j].last_mitigation_time[1]
           /\ AllFvgs[j].last_mitigation_time[1] < Len(candles)
           /\ AllFvgs[k].status = "unfilled"

\* Two gap dictionaries agree in every key but status and the three
\* mitigation fields of the tracker.
SameGap(f, g) ==
    /\ DOMAIN f = DOMAIN g
    /\ \A key \in DOMAIN f \ {"status", "first_mitigation_time", "last_mitigation_time", "time_to_mitigation"} :
           f[key] = g[key]

\* A list of gaps and the list a call made of it: as long, and gap by gap
\* the same but for the tracker's fields.
SameGaps(before, after) ==
    /\ Len(after) = Len(before)
    /\ \A j \in 1 .. Len(before) : SameGap(before[j], after[j])

\* C37: check_mitigations changes status, first_mitigation_time,
\* last_mitigation_time and time_to_mitigation of the gaps it is given and
\* nothing else: each list keeps its length and order and every gap its
\* other fields, the candles the gaps were detected in stay as they were,
\* and given the first n gaps of a list it returns those n gaps.
C37_TrackerFrame ==
    [][pc # "new" =>
          /\ SameGaps(bullish_fvgs, bullish_fvgs')
          /\ SameGaps(bearish_fvgs, bearish_fvgs')
          /\ UNCHANGED <<candles, det_error>>
          /\ \A n \in 0 .. MaxTarget :
                 /\ SameGaps(Truncate(bullish_fvgs, n),
                             check_mitigations(Truncate(bullish_fvgs, n), TRUE,
                                               MitigationDetectorInit(candles)))
                 /\ SameGaps(Truncate(bearish_fvgs, n),
                             check_mitigations(Truncate(bearish_fvgs, n), FALSE,
                                               MitigationDetectorInit(candles)))]_vars

\* A call has mitigated the second of two gaps of a list and left the first
\* unfilled; the mitigated gap has the detector's mitigation_time and
\* mitigation_price as detected.
C37_Witness ==
    /\ pc = "checked"
    /\ Len(bearish_fvgs) >= 2
    /\ bearish_fvgs[1].status = "unfilled"
    /\ bearish_fvgs[2].status = "mitigated"
    /\ bearish_fvgs[2].mitigation_time = None
    /\ bearish_fvgs[2].mitigation_price = None
    /\ bearish_fvgs[1].index < bearish_fvgs[2].index

\* C27: check_mitigations gives every gap the same status and mitigation
\* fields whatever the order of the candle list the tracker was built from:
\* the call on input leaves the two lists as the call on the reversed input
\* would.
C27_InputOrderIndependent ==
    [][\A input \in TrackerInputs :
          (Len(input) >= 2 /\ CheckMitigations(input)) =>
              /\ bullish_fvgs' = check_mitigations(bullish_fvgs, TRUE,
                                     MitigationDetectorInit(Reverse(input)))
              /\ bearish_fvgs' = check_mitigations(bearish_fvgs, FALSE,
                                     MitigationDetectorInit(Reverse(input)))]_vars

(***************************************************************************)
(* Properties of the result cache (checked under SpecEngine)               *)
(***************************************************************************)
\* The entry is younger than cache_duration.
WithinTTL ==
    /\ cache.last_update # None
    /\ now - cache.last_update[1] < cache.cache_duration

\* The stored dictionary is the one stored by the last _update_cache: its
\* JSON text, which lists every key, is the text whose digest was recorded.
StoredUnchanged ==
    /\ cache.hash # None
    /\ JsonDumps(cache.fvgs) = cache.hash[1][2]

\* A step that records a digest or a time of update is the _update_cache of
\* collect_all_fvgs: it stores the dictionary the call returns, with its
\* digest, at the current time.
PutStoresReturned ==
    (cache'.hash # cache.hash \/ cache'.last_update # cache.last_update) =>
        /\ ret'.value # None
        /\ cache'.fvgs = ret'.value
        /\ cache'.hash = Some(generate_cache_hash(ret'.value))
        /\ cache'.last_update = Some(now)
        /\ cache'.cache_duration = cache.cache_duration

\* C10: cache round trip.  A snapshot stored by _update_cache is stored as
\* returned, and a get_cached_results issued while now - last_update <
\* cache_duration, the stored data unchanged since it was stored, returns
\* the stored snapshot and leaves the cache entry as it is.
C10_CacheRoundTrip ==
    [][/\ PutStoresReturned
       /\ (GetCachedResults /\ WithinTTL /\ StoredUnchanged)
          => /\ ret'.value # None
             /\ ret'.value = cache.fvgs
             /\ cache' = cache]_vars

\* A get, strictly after the put and within the TTL, has returned the stored
\* snapshot, which holds a gap.
C10_Witness ==
    /\ ret.op = "get"
    /\ ret.value # None
    /\ ret.value = cache.fvgs
    /\ cache.last_update # None
    /\ now > cache.last_update[1]
    /\ ret.value[1].bullish_fvgs # <<>>

\* C11: cache expiry.  get_cached_results returns None whenever nothing has
\* been stored or now - last_update >= cache_duration, the boundary and
\* cache_duration = 0 included.
C11_ExpiredIsAbsent ==
    [][(GetCachedResults /\ ~WithinTTL) =>
          /\ ret'.value = None
          /\ ret'.raised = None]_vars

\* A get has returned None for an unchanged entry whose age is exactly
\* cache_duration.
C11_Witness ==
    /\ ret.op = "get"
    /\ ret.value = None
    /\ cache.last_update # None
    /\ cache.cache_duration > 0
    /\ now - cache.last_update[1] = cache.cache_duration
    /\ StoredUnchanged

\* The stored dictionary has been changed since it was stored: the digest of
\* its JSON text is not the digest recorded.
DigestMismatch ==
    /\ cache.hash # None
    /\ generate_cache_hash(cache.fvgs) # cache.hash[1]

\* C12: cache integrity.  When the stored snapshot has been changed after
\* it was stored, so that its digest differs from the recorded one,
\* get_cached_results returns None, within the TTL too, and raises nothing.
C12_ChangedIsAbsent ==
    [][(GetCachedResults /\ DigestMismatch) =>
          /\ ret'.value = None
          /\ ret'.raised = None]_vars

\* A get within the TTL has returned None for a changed entry.
C12_Witness ==
    /\ ret.op = "get"
    /\ ret.value = None
    /\ ret.raised = None
    /\ WithinTTL
    /\ DigestMismatch

\* C13: cache eviction.  A get that finds a stored entry invalid and returns
\* None leaves the cache without the snapshot, its digest and its time of
\* update.
C13_InvalidGetEvicts ==
    [][(GetCachedResults /\ cache.last_update # None /\ ret'.value = None) =>
          /\ cache'.fvgs = None
          /\ cache'.hash = None
          /\ cache'.last_update = None]_vars

\* C31: the cache entry is not shared with callers: a caller changing the
\* dictionary it received changes nothing in the cache, and the stored
\* dictionary still has the digest recorded for it.
C31_CacheIsolation ==
    [][CallerMutatesResult =>
          /\ cache' = cache
          /\ cache'.hash # None => generate_cache_hash(cache'.fvgs) = cache'.hash[1]]_vars

\* A call of get_cached_results() has returned to its caller.
GetStep == ret'.op = "get" /\ ret' # ret /\ cache' = cache

\* The time at which the dictionary now in cache['fvgs'] was stored: the
\* last_update that an _update_cache in progress has overwritten at line 77
\* and not yet replaced the dictionary of, or else cache['last_update'].
SnapshotPutAt == IF put.pc = "stamped" THEN put.replaced ELSE cache.last_update

\* C26: with _update_cache running in another thread, get_cached_results
\* raises nothing and returns None or a dictionary whose digest is the one
\* recorded and whose age, counted from the time it was stored itself, is
\* below cache_duration.
C26_ConcurrentCacheSafety ==
    [][GetStep =>
          /\ ret'.raised = None
          /\ ret'.value # None =>
                 /\ cache.hash = Some(generate_cache_hash(ret'.value))
                 /\ SnapshotPutAt # None
                 /\ now - SnapshotPutAt[1] < cache.cache_duration]_vars

(***************************************************************************)
(* Properties of the Detection Engine (checked under SpecEngine)           *)
(***************************************************************************)
\* Two gaps the deduplication takes for the same: equal time, equal type and
\* sizes that differ by less than the epsilon.
SameDetection(a, b) ==
    /\ a.time = b.time
    /\ a.type = b.type
    /\ Abs(a.gap_size - b.gap_size) * EpsilonDen < EpsilonNum

NoDuplicates(fvgs) ==
    \A j, k \in 1 .. Len(fvgs) : j # k => ~SameDetection(fvgs[j], fvgs[k])

HasDuplicates(fvgs) == ~NoDuplicates(fvgs)

\* C14: engine deduplication.  Neither side of a snapshot a call has
\* returned holds two gaps of equal time, equal type and sizes differing by
\* less than the epsilon, whatever the source delivered.
C14_NoDuplicateGaps ==
    ret.value # None =>
        /\ NoDuplicates(ret.value[1].bullish_fvgs)
        /\ NoDuplicates(ret.value[1].bearish_fvgs)

\* The call has computed its snapshot from exchange data that holds every
\* candle twice and in which the detector found the same gap twice.
C14_Witness ==
    /\ ret.op = "collect"
    /\ ret.queried
    /\ \E batch \in DuplicatedBatches :
           /\ HasDuplicates(detect_fvgs_only(batch).bullish)
           /\ ret.value = Some(ComputeResults(batch, detect_fvgs_only(batch),
                                              DefaultTargetFvgs))
           /\ Len(ret.value[1].bullish_fvgs) >= 2

\* C15: empty source.  When the cache is not valid and the Candle Source
\* returns no candles, collect_all_fvgs returns the empty snapshot (not
\* complete, both lists empty, no candle analysed), raises nothing and
\* stores nothing.
C15_EmptySourceEmptySnapshot ==
    [][\A target_fvgs \in Targets :
          (~(WithinTTL /\ StoredUnchanged) /\ CollectAllFvgs(<<>>, target_fvgs)) =>
              /\ ret'.raised = None
              /\ ret'.value # None
              /\ ret'.value[1].collection_complete = FALSE
              /\ ret'.value[1].bullish_fvgs = <<>>
              /\ ret'.value[1].bearish_fvgs = <<>>
              /\ ret'.value[1].total_candles = 0
              /\ cache' = cache]_vars

\* The call has queried the source and returned the empty snapshot, an
\* expired entry in the cache.
C15_Witness ==
    /\ ret.op = "collect"
    /\ ret.queried
    /\ ret.raised = None
    /\ ret.value = Some(Results(<<>>, <<>>, 0, FALSE))
    /\ cache.last_update # None
    /\ ~WithinTTL

\* A step of collect_all_fvgs: a step that is none of the other actions.
CollectStep == ~Tick /\ ~GetCachedResults /\ ~CallerMutatesResult

\* C16: cache hit short-circuit.  A collect_all_fvgs that starts with a valid
\* entry returns the cached snapshot, does not query the Candle Source and
\* leaves the snapshot, its digest and its time of update as they are.
C16_CacheHitShortCircuit ==
    [][(CollectStep /\ WithinTTL /\ StoredUnchanged) =>
          /\ ret'.op = "collect"
          /\ ret'.raised = None
          /\ ret'.value # None
          /\ ret'.value = cache.fvgs
          /\ ~ret'.queried
          /\ cache' = cache]_vars

\* A collect_all_fvgs, after the clock has advanced, has returned the cached
\* snapshot without a query.
C16_Witness ==
    /\ ret.op = "collect"
    /\ ~ret.queried
    /\ ret.value # None
    /\ ret.value = cache.fvgs
    /\ WithinTTL
    /\ now > cache.last_update[1]

\* C18: source failure.  When the exchange fails during a call of
\* collect_all_fvgs, the call raises nothing; it returns the cached snapshot
\* when that is valid, and the empty snapshot, not complete, otherwise.
C18_SourceFailureNotRaised ==
    [][\A target_fvgs \in Targets :
          CollectFromSource(SourceFailure, target_fvgs) =>
              /\ ret'.raised = None
              /\ ret'.value # None
              /\ IF WithinTTL /\ StoredUnchanged
                 THEN ret'.value = cache.fvgs
                 ELSE ret'.value = Some(Results(<<>>, <<>>, 0, FALSE))
              /\ cache' = cache]_vars

\* A call whose query of the source came back empty, as a failed one does,
\* has returned the empty snapshot; the entry in the cache is young enough
\* and no longer matches its digest.
C18_Witness ==
    /\ ret.op = "collect"
    /\ ret.queried
    /\ ret.raised = None
    /\ ret.value = Some(Results(<<>>, <<>>, 0, FALSE))
    /\ WithinTTL
    /\ DigestMismatch

\* C38: collect_all_fvgs changes the cache entry only when it obtained a
\* non-empty batch and returns the complete snapshot computed from it, which
\* it stores with its digest and the current time; a call that raises or
\* returns an incomplete snapshot leaves the entry, its digest and its time
\* of update as they were; and a stored snapshot that is as it was stored
\* has collection_complete = True.
C38_OnlySuccessfulCached ==
    [][/\ (cache' # cache /\ CollectStep) =>
              /\ ret'.queried
              /\ ret'.raised = None
              /\ ret'.value # None
              /\ ret'.value[1].total_candles > 0
              /\ ret'.value[1].collection_complete
              /\ cache' = update_cache(cache, ret'.value[1], now)
       /\ ((ret'.raised # None \/ ret'.value = None \/ ~ret'.value[1].collection_complete)
               /\ CollectStep) =>
              cache' = cache
       /\ (cache'.fvgs # None /\ cache'.hash = Some(generate_cache_hash(cache'.fvgs))) =>
              cache'.fvgs[1].collection_complete]_vars

\* A call after the entry expired has asked the Candle Source, got nothing
\* and returned the incomplete snapshot; the entry stored earlier is still
\* there, as it was stored.
C38_Witness ==
    /\ ret.op = "collect"
    /\ ret.queried
    /\ ret.value # None
    /\ ~ret.value[1].collection_complete
    /\ cache.fvgs # None
    /\ cache.hash = Some(generate_cache_hash(cache.fvgs))
    /\ cache.fvgs[1].collection_complete
    /\ cache.last_update # None
    /\ now - cache.last_update[1] >= cache.cache_duration
    /\ cache.last_update[1] < now

(***************************************************************************)
(* Properties of a fresh computation (checked under SpecCollect)           *)
(***************************************************************************)
\* The call has computed its snapshot from a batch that holds candles.
FreshlyComputed ==
    /\ ret.op = "collect"
    /\ ret.queried
    /\ ret.raised = None
    /\ ret.value # None
    /\ loaded[1].batch # <<>>

\* The deduplicated gaps of each kind detected in the loaded batch.
DedupBullish == ExtendUnique(<<>>, detect_fvgs_only(loaded[1].batch).bullish, 1)
DedupBearish == ExtendUnique(<<>>, detect_fvgs_only(loaded[1].batch).bearish, 1)

Min(a, b) == IF a < b THEN a ELSE b

\* side is in non-increasing order of time, no longer than target, and made
\* of the Min(target, k) most recently formed of the k gaps of dedup (a gap
\* is known by the index of its window).
NewestOf(side, dedup, target) ==
    /\ \A j \in 1 .. Len(side) - 1 : side[j].time >= side[j + 1].time
    /\ Len(side) <= target
    /\ Len(side) = Min(target, Len(dedup))
    /\ \A j, k \in 1 .. Len(side) : j # k => side[j].index # side[k].index
    /\ \A j \in 1 .. Len(side) : \E k \in 1 .. Len(dedup) :
           /\ dedup[k].index = side[j].index
           /\ dedup[k].time = side[j].time
           /\ dedup[k].gap_low = side[j].gap_low
           /\ dedup[k].gap_high = side[j].gap_high
    /\ \A k \in 1 .. Len(dedup) :
           (\A j \in 1 .. Len(side) : side[j].index # dedup[k].index) =>
               \A j \in 1 .. Len(side) : side[j].time >= dedup[k].time

\* C17: engine ordering and truncation.  In a snapshot produced by a fresh
\* computation each side is in non-increasing order of time, has at most
\* target_fvgs gaps, and holds the min(target_fvgs, k) most recently formed
\* of the k deduplicated gaps of its kind detected in the batch.
C17_NewestFirstTruncated ==
    FreshlyComputed =>
        /\ NewestOf(ret.value[1].bullish_fvgs, DedupBullish, loaded[1].target_fvgs)
        /\ NewestOf(ret.value[1].bearish_fvgs, DedupBearish, loaded[1].target_fvgs)

\* A fresh computation has cut a side with more gaps than asked for down to
\* the target, which is not zero.
C17_Witness ==
    /\ FreshlyComputed
    /\ loaded[1].target_fvgs >= 1
    /\ Len(DedupBullish) > loaded[1].target_fvgs
    /\ Len(ret.value[1].bullish_fvgs) = loaded[1].target_fvgs

=============================================================================
